---- MODULE Spec2Model ----
(***************************************************************************)
(* A model of shed: the lockfile (package lockfile), the tool identity     *)
(* (package tool) and the install pipeline of the client (package client). *)
(*                                                                         *)
(* Go slices are modelled as TLA+ sequences, so positions are 1-based:     *)
(* position i of the model is index i-1 of the code, and the code's        *)
(* "not found" index -1 is 0 here.  A Go run-time panic (index out of      *)
(* range) is modelled as the outcome "panic"; the program does not run on  *)
(* after it.                                                               *)
(***************************************************************************)
EXTENDS Integers, Sequences, FiniteSets, TLC

\* ------------------------------------------------------------------------
\* Bounds of the model
\* ------------------------------------------------------------------------
\* PutTool that would make the tool vector longer than this is not taken.
MaxTools == 3

\* ------------------------------------------------------------------------
\* package tool
\* ------------------------------------------------------------------------
\* An import path is modelled by the sequence of its slash-separated
\* elements: <<"a.io", "x">> is the string "a.io/x".
ImportPaths == {<<"a.io", "x">>, <<"b.io", "x">>, <<"c.io", "y">>}

\* The version strings of the model and the characters they consist of
\* ("rc" stands for the characters of a prerelease identifier).
VersionParts ==
    [v \in {"v1.0.0", "v2.0.0", "v1.0.0-rc", "v1.2", "v1.2.0", "v1", "3.5.7.124",
            "master", "none", "latest", ""} |->
        CASE v = "v1.0.0"    -> <<"v", "1", ".", "0", ".", "0">>
          [] v = "v2.0.0"    -> <<"v", "2", ".", "0", ".", "0">>
          [] v = "v1.0.0-rc" -> <<"v", "1", ".", "0", ".", "0", "-", "rc">>
          [] v = "v1.2"      -> <<"v", "1", ".", "2">>
          [] v = "v1.2.0"    -> <<"v", "1", ".", "2", ".", "0">>
          [] v = "v1"        -> <<"v", "1">>
          [] v = "3.5.7.124" -> <<"3", ".", "5", ".", "7", ".", "124">>
          [] v = "master"    -> <<"m", "a", "s", "t", "e", "r">>
          [] v = "none"      -> <<"n", "o", "n", "e">>
          [] v = "latest"    -> <<"l", "a", "t", "e", "s", "t">>
          [] v = ""          -> <<>>]

Versions == DOMAIN VersionParts

Digits == {"0", "1", "2"}

\* The length of the part of p before the prerelease: "v" and the numbers.
CoreLen(p) ==
    IF \E i \in 1..Len(p) : p[i] = "-"
    THEN (CHOOSE i \in 1..Len(p) : p[i] = "-" /\ \A j \in 1..(i - 1) : p[j] # "-") - 1
    ELSE Len(p)

\* semver.IsValid: "v" MAJOR [ "." MINOR [ "." PATCH [ "-" PRERELEASE ] ] ]
\* (the version strings of the model carry no build part).
IsValid(v) ==
    LET p == VersionParts[v]
        n == CoreLen(p)
    IN  /\ n \in {2, 4, 6}
        /\ p[1] = "v"
        /\ \A i \in 2..n : IF i % 2 = 0 THEN p[i] \in Digits ELSE p[i] = "."
        /\ Len(p) > n => (n = 6 /\ Len(p) > n + 1)

\* semver.Prerelease: whether a valid version has a prerelease part
\* (the function returns that part, "" when there is none or v is invalid).
HasPrerelease(v) == IsValid(v) /\ Len(VersionParts[v]) > CoreLen(VersionParts[v])

\* A canonical semantic version has all of major, minor and patch.
IsCanonical(v) == IsValid(v) /\ CoreLen(VersionParts[v]) = 6

\* semver.Canonical: "" for a version that is not valid, and the version
\* with the missing ".0.0" or ".0" added otherwise.
Canonical(v) ==
    IF ~IsValid(v) THEN ""
    ELSE LET p == VersionParts[v]
             short == CASE CoreLen(p) = 2 -> <<".", "0", ".", "0">>
                        [] CoreLen(p) = 4 -> <<".", "0">>
                        [] OTHER -> <<>>
         IN  CHOOSE w \in Versions : VersionParts[w] = p \o short

Tool(p, v) == [ImportPath |-> p, Version |-> v]

\* The zero value tool.Tool{}.
NoTool == [ImportPath |-> <<>>, Version |-> ""]

\* path.Base: the last element of the path.
Base(p) == p[Len(p)]

\* Tool.Name
Name(t) == Base(t.ImportPath)

\* Tool.HasSemver
HasSemver(t) == IsValid(t.Version)

\* ------------------------------------------------------------------------
\* package lockfile
\* ------------------------------------------------------------------------
\* Lockfile{tools, nameMap}: the tool vector and the short-name index, a map
\* from a binary name to the positions of the tools of that name.
EmptyMap == [n \in {} |-> <<>>]

EmptyLockfile == [tools |-> <<>>, nameMap |-> EmptyMap]

\* delete(m, k)
MapDelete(m, k) == [n \in (DOMAIN m) \ {k} |-> m[n]]

\* m[k] = v
MapPut(m, k, v) == [n \in (DOMAIN m) \cup {k} |-> IF n = k THEN v ELSE m[n]]

\* s[:len(s)-1]
DropLast(s) == SubSeq(s, 1, Len(s) - 1)

\* Lockfile.LenTools
LenTools(lf) == Len(lf.tools)

\* The loop of PutTool over the bucket, from bucket position i on: the tool
\* position of the entry with t's import path, 0 when there is none, and
\* whether reading lf.tools[ti] went out of range.
RECURSIVE PutScan(_, _, _, _)
PutScan(lf, bucket, i, t) ==
    IF i > Len(bucket) THEN [found |-> 0, panic |-> FALSE]
    ELSE LET ti == bucket[i] IN
         IF ti \notin 1..Len(lf.tools) THEN [found |-> 0, panic |-> TRUE]
         ELSE IF lf.tools[ti].ImportPath = t.ImportPath
              THEN [found |-> ti, panic |-> FALSE]
              ELSE PutScan(lf, bucket, i + 1, t)

\* Lockfile.PutTool: the lockfile after the call and the error returned.
PutTool(lf, t) ==
    IF ~HasSemver(t) THEN [lf |-> lf, err |-> "ErrInvalidVersion"]
    ELSE
      LET toolName == Name(t)
          bucket == IF toolName \in DOMAIN lf.nameMap
                    THEN lf.nameMap[toolName] ELSE <<>>
          scan == PutScan(lf, bucket, 1, t)
      IN  IF scan.panic THEN [lf |-> lf, err |-> "panic"]
          ELSE IF scan.found # 0
          THEN [lf |-> [lf EXCEPT !.tools[scan.found] = t], err |-> "nil"]
          ELSE [lf |-> [tools |-> Append(lf.tools, t),
                        nameMap |-> MapPut(lf.nameMap, toolName,
                                           Append(bucket, Len(lf.tools) + 1))],
                err |-> "nil"]

\* The loop of DeleteTool over the bucket, from bucket position i on: the
\* tool position and the bucket position of the entry to delete (0 when
\* there is none), and whether reading lf.tools[ti] went out of range.
RECURSIVE DeleteScan(_, _, _, _)
DeleteScan(lf, bucket, i, t) ==
    IF i > Len(bucket) THEN [found |-> 0, bucketIndex |-> 0, panic |-> FALSE]
    ELSE LET ti == bucket[i] IN
         IF ti \notin 1..Len(lf.tools)
         THEN [found |-> 0, bucketIndex |-> 0, panic |-> TRUE]
         ELSE LET tl == lf.tools[ti] IN
              IF /\ t.ImportPath = tl.ImportPath
                 /\ (t.Version = "" \/ t.Version = tl.Version)
              THEN [found |-> ti, bucketIndex |-> i, panic |-> FALSE]
              ELSE DeleteScan(lf, bucket, i + 1, t)

\* Lockfile.DeleteTool: the lockfile after the call; err is "panic" when the
\* call panicked and "nil" otherwise (the method returns nothing).
DeleteTool(lf, t) ==
    LET toolName == Name(t) IN
    IF toolName \notin DOMAIN lf.nameMap THEN [lf |-> lf, err |-> "nil"]
    ELSE
      LET bucket == lf.nameMap[toolName]
          scan == DeleteScan(lf, bucket, 1, t)
      IN  IF scan.panic THEN [lf |-> lf, err |-> "panic"]
          ELSE IF scan.found = 0 THEN [lf |-> lf, err |-> "nil"]
          ELSE
            LET n == Len(lf.tools)
                \* the last tool replaces the found one, the vector shrinks
                tools1 == DropLast([lf.tools EXCEPT ![scan.found] = lf.tools[n]])
                \* the same for the bucket; no other bucket is touched
                bucket1 == DropLast([bucket EXCEPT
                                        ![scan.bucketIndex] = bucket[Len(bucket)]])
            IN  [lf |-> [tools |-> tools1,
                         nameMap |-> IF Len(bucket1) = 0
                                     THEN MapDelete(lf.nameMap, toolName)
                                     ELSE MapPut(lf.nameMap, toolName, bucket1)],
                 err |-> "nil"]

\* A tool name as given to GetTool and to the parsers: "path" when at is
\* FALSE and "path@version" when at is TRUE.
ToolName(p, at, v) == [path |-> p, at |-> at, version |-> v]

PathName(p) == ToolName(p, FALSE, "")

NoName == ToolName(<<>>, FALSE, "")

\* The host names that make a path acceptable to module.CheckPath: the first
\* element of an import path must be a domain name.
Hosts == {"a.io", "b.io", "c.io"}

\* module.CheckPath
CheckPath(p) == Len(p) > 0 /\ p[1] \in Hosts

\* tool.parseTool: the tool and the error.
parseTool(name, strict) ==
    LET t == Tool(name.path, name.version) IN
    IF name.at /\ name.version = "" THEN [t |-> t, err |-> "MissingVersion"]
    ELSE IF ~CheckPath(t.ImportPath) THEN [t |-> t, err |-> "InvalidPath"]
    ELSE IF ~strict \/ t.Version = "" THEN [t |-> t, err |-> "nil"]
    ELSE IF ~IsValid(t.Version) THEN [t |-> t, err |-> "NotSemver"]
    ELSE [t |-> t, err |-> "nil"]

\* tool.Parse
Parse(name) == parseTool(name, TRUE)

\* tool.ParseLax
ParseLax(name) == parseTool(name, FALSE)

\* The loop of GetTool over the bucket, from bucket position i on.
RECURSIVE GetScan(_, _, _, _)
GetScan(lf, bucket, i, tl) ==
    IF i > Len(bucket) THEN [t |-> NoTool, err |-> "ErrNotFound"]
    ELSE LET ti == bucket[i] IN
         IF ti \notin 1..Len(lf.tools) THEN [t |-> NoTool, err |-> "panic"]
         ELSE LET t == lf.tools[ti] IN
              IF t.ImportPath # tl.ImportPath THEN GetScan(lf, bucket, i + 1, tl)
              ELSE IF tl.Version # "" /\ tl.Version # t.Version
                   THEN [t |-> t, err |-> "ErrIncorrectVersion"]
                   ELSE [t |-> t, err |-> "nil"]

\* Lockfile.GetTool: the tool and the error returned.  The name is a key of
\* the index only when it is one path element without a version suffix.
GetTool(lf, name) ==
    IF ~name.at /\ Len(name.path) = 1 /\ name.path[1] \in DOMAIN lf.nameMap
    THEN LET bucket == lf.nameMap[name.path[1]] IN
         IF Len(bucket) > 1 THEN [t |-> NoTool, err |-> "ErrMultipleTools"]
         ELSE IF Len(bucket) = 0 \/ bucket[1] \notin 1..Len(lf.tools)
              THEN [t |-> NoTool, err |-> "panic"]
              ELSE [t |-> lf.tools[bucket[1]], err |-> "nil"]
    \* path.Base(name) == name: the name has no slash
    ELSE IF Len(name.path) <= 1 THEN [t |-> NoTool, err |-> "ErrNotFound"]
    ELSE LET parsed == ParseLax(name) IN
         IF parsed.err # "nil" THEN [t |-> NoTool, err |-> parsed.err]
         ELSE LET toolName == Name(parsed.t) IN
              IF toolName \notin DOMAIN lf.nameMap
              THEN [t |-> NoTool, err |-> "ErrNotFound"]
              ELSE GetScan(lf, lf.nameMap[toolName], 1, parsed.t)

\* Lockfile.WriteTo: the JSON document, a map from import path to version;
\* a later tool of the vector overwrites an earlier one of the same path.
EmptyDoc == [p \in {} |-> ""]

RECURSIVE DocOf(_, _)
DocOf(tools, n) ==
    IF n = 0 THEN EmptyDoc
    ELSE LET d == DocOf(tools, n - 1)
             t == tools[n]
         IN  [p \in (DOMAIN d) \cup {t.ImportPath} |->
                 IF p = t.ImportPath THEN t.Version ELSE d[p]]

WriteTo(lf) == DocOf(lf.tools, Len(lf.tools))

\* The tools a document holds.
DocTools(doc) == {Tool(p, doc[p]) : p \in DOMAIN doc}

\* The sequences that enumerate the set S once each: the orders in which Go
\* may iterate over a map with these entries.
Orders(S) ==
    {q \in [1..Cardinality(S) -> S] : \A i, j \in 1..Cardinality(S) : q[i] = q[j] => i = j}

\* The body of the loop of lockfile.Parse: the tools are appended in the
\* order of iteration.
RECURSIVE ParseAppend(_, _)
ParseAppend(q, n) ==
    IF n = 0 THEN EmptyLockfile
    ELSE LET l == ParseAppend(q, n - 1)
             t == q[n]
             bucket == IF Name(t) \in DOMAIN l.nameMap THEN l.nameMap[Name(t)] ELSE <<>>
         IN  [tools |-> Append(l.tools, t),
              nameMap |-> MapPut(l.nameMap, Name(t), Append(bucket, Len(l.tools) + 1))]

\* lockfile.Parse of a document all of whose entries parse: the lockfiles it
\* may return.
ParseLockfile(doc) == {ParseAppend(q, Len(q)) : q \in Orders(DocTools(doc))}

\* The loop of lockfile.Parse over the entries q[1..n] of the decoded
\* document, an entry being a tool: the entry is parsed as "path@version";
\* an entry that does not parse adds its error and no tool.
RECURSIVE ParseLoop(_, _)
ParseLoop(q, n) ==
    IF n = 0 THEN [lf |-> EmptyLockfile, errs |-> <<>>]
    ELSE LET r == ParseLoop(q, n - 1)
             parsed == Parse(ToolName(q[n].ImportPath, TRUE, q[n].Version))
             t == parsed.t
             l == r.lf
             bucket == IF Name(t) \in DOMAIN l.nameMap THEN l.nameMap[Name(t)] ELSE <<>>
         IN  IF parsed.err # "nil"
             THEN [r EXCEPT !.errs = Append(@, parsed.err)]
             ELSE [lf |-> [tools |-> Append(l.tools, t),
                           nameMap |-> MapPut(l.nameMap, Name(t),
                                              Append(bucket, Len(l.tools) + 1))],
                   errs |-> r.errs]

\* Parse without the check of errs after the loop: the lockfile of the
\* entries that parsed is returned.
ParseReturnPartial(q) ==
    LET r == ParseLoop(q, Len(q)) IN
    [nil |-> FALSE, lf |-> r.lf, errs |-> r.errs]

\* What Parse returns after the loop, for the order q of iteration: no
\* lockfile and the errors when there are errors, the lockfile otherwise.
ParseReturn(q) ==
    LET r == ParseLoop(q, Len(q)) IN
    IF Len(r.errs) > 0
    THEN [nil |-> TRUE, lf |-> EmptyLockfile, errs |-> r.errs]
    ELSE [nil |-> FALSE, lf |-> r.lf, errs |-> <<>>]

\* lockfile.Parse of a document that decodes: what it may return.
ParseDoc(doc) == {ParseReturn(q) : q \in Orders(DocTools(doc))}

\* ------------------------------------------------------------------------
\* package client
\* ------------------------------------------------------------------------
noneVersion == "none"

latestVersion == "latest"

\* The first loop without the test of the version when updating: every
\* name that parses is accepted.
RECURSIVE GetRequestedAnyVersion(_, _, _)
GetRequestedAnyVersion(names, n, update) ==
    IF n = 0 THEN [tools |-> <<>>, errs |-> <<>>, seen |-> {}]
    ELSE LET r == GetRequestedAnyVersion(names, n - 1, update)
             parsed == ParseLax(names[n])
             t == parsed.t
         IN  IF parsed.err # "nil"
             THEN [r EXCEPT !.errs = Append(@, "InvalidToolName")]
             ELSE [tools |-> Append(r.tools,
                                    IF update THEN Tool(t.ImportPath, latestVersion) ELSE t),
                   errs |-> r.errs,
                   seen |-> r.seen \cup {t.ImportPath}]

\* The first loop leaving at the first name it does not accept: the names
\* after it are not examined.
RECURSIVE GetRequestedFirstError(_, _, _)
GetRequestedFirstError(names, n, update) ==
    IF n = 0 THEN [tools |-> <<>>, errs |-> <<>>, seen |-> {}]
    ELSE LET r == GetRequestedFirstError(names, n - 1, update)
             parsed == ParseLax(names[n])
             t == parsed.t
         IN  IF Len(r.errs) > 0 THEN r
             ELSE IF parsed.err # "nil"
             THEN [r EXCEPT !.errs = Append(@, "InvalidToolName")]
             ELSE IF update /\ t.Version \notin {"", noneVersion, latestVersion}
             THEN [r EXCEPT !.errs = Append(@, "Invalid")]
             ELSE [tools |-> Append(r.tools,
                                    IF update THEN Tool(t.ImportPath, latestVersion) ELSE t),
                   errs |-> r.errs,
                   seen |-> r.seen \cup {t.ImportPath}]

\* The first loop of Shed.Get over names[1..n]: the tools accepted, the
\* errors, one per rejected name, and the import paths seen.
RECURSIVE GetRequested(_, _, _)
GetRequested(names, n, update) ==
    IF n = 0 THEN [tools |-> <<>>, errs |-> <<>>, seen |-> {}]
    ELSE LET r == GetRequested(names, n - 1, update)
             parsed == ParseLax(names[n])
             t == parsed.t
         IN  IF parsed.err # "nil"
             THEN [r EXCEPT !.errs = Append(@, "InvalidToolName")]
             ELSE IF update /\ t.Version \notin {"", noneVersion, latestVersion}
             THEN [r EXCEPT !.errs = Append(@, "Invalid")]
             ELSE [tools |-> Append(r.tools,
                                    IF update THEN Tool(t.ImportPath, latestVersion) ELSE t),
                   errs |-> r.errs,
                   seen |-> r.seen \cup {t.ImportPath}]

\* The second loop without the test of seenTools: every lockfile tool is
\* appended.
RECURSIVE GetUnionAll(_, _, _, _, _)
GetUnionAll(tools, seen, lfTools, n, updateAll) ==
    IF n = 0 THEN tools
    ELSE LET acc == GetUnionAll(tools, seen, lfTools, n - 1, updateAll)
             t == lfTools[n]
         IN  IF updateAll /\ ~HasPrerelease(t.Version)
             THEN Append(acc, Tool(t.ImportPath, latestVersion))
             ELSE Append(acc, t)

\* The second loop without the test of semver.Prerelease: when all tools
\* are updated, every lockfile tool gets the version latest.
RECURSIVE GetUnionLatest(_, _, _, _, _)
GetUnionLatest(tools, seen, lfTools, n, updateAll) ==
    IF n = 0 THEN tools
    ELSE LET acc == GetUnionLatest(tools, seen, lfTools, n - 1, updateAll)
             t == lfTools[n]
         IN  IF t.ImportPath \in seen THEN acc
             ELSE IF updateAll
                  THEN Append(acc, Tool(t.ImportPath, latestVersion))
                  ELSE Append(acc, t)

\* The second loop of Shed.Get: the union with the lockfile tools 1..n.
RECURSIVE GetUnion(_, _, _, _, _)
GetUnion(tools, seen, lfTools, n, updateAll) ==
    IF n = 0 THEN tools
    ELSE LET acc == GetUnion(tools, seen, lfTools, n - 1, updateAll)
             t == lfTools[n]
         IN  IF t.ImportPath \in seen THEN acc
             ELSE IF updateAll /\ ~HasPrerelease(t.Version)
                  THEN Append(acc, Tool(t.ImportPath, latestVersion))
                  ELSE Append(acc, t)

\* Shed.Get: the tools of the InstallSet, or the errors.
Get(lf, names, update) ==
    LET r == GetRequested(names, Len(names), update) IN
    IF Len(r.errs) > 0 THEN [tools |-> <<>>, errs |-> r.errs]
    ELSE [tools |-> GetUnion(r.tools, r.seen, lf.tools, Len(lf.tools),
                             update /\ Len(names) = 0),
          errs |-> <<>>]

\* getConcurrency, given the result of runtime.NumCPU.
getConcurrency(concurrency, numCPUs) ==
    IF concurrency # 0 THEN concurrency
    ELSE IF numCPUs > 0 THEN numCPUs
    ELSE 1

\* The version the go.mod of the driver names for a tool asked for without a
\* semantic version.
DriverVersion == "v2.0.0"

\* The tool a successful Cache.Install returns: download keeps a semantic
\* version (it fails when the driver resolved another one) and takes the
\* version of the driver's go.mod otherwise.
Installed(t) ==
    IF HasSemver(t) THEN t ELSE Tool(t.ImportPath, DriverVersion)

\* The directory of the cache a successful Cache.Install(t) leaves for the
\* tool it returns: download left a go.mod file that requires the version
\* and Build wrote the binary.
InstalledDir(t) ==
    [exists |-> TRUE,
     mod |-> [state |-> "require", Path |-> t.ImportPath, Version |-> t.Version],
     bin |-> TRUE]

\* The cache c after a successful Cache.Install of t.
InstallInto(c, t) ==
    [d \in (DOMAIN c) \cup {Installed(t)} |->
        IF d = Installed(t) THEN InstalledDir(d) ELSE c[d]]

\* util.FileOrDirExists(binPath) for the binary of the tool t.  Tool.Filepath
\* gives one directory to each import path and version, so that the tool
\* stands for its binary path.
BinaryExists(c, t) == t \in DOMAIN c /\ c[t].bin

\* Cache.ToolPath: the binary path (the tool it belongs to) and the error.
\* Tool.BinaryFilepath fails when module.EscapePath rejects the import path.
CacheToolPath(c, t) ==
    IF ~CheckPath(t.ImportPath) THEN [binPath |-> NoTool, err |-> "EscapePath"]
    ELSE IF ~BinaryExists(c, t) THEN [binPath |-> NoTool, err |-> "NotInstalled"]
    ELSE [binPath |-> t, err |-> "nil"]

\* Shed.ToolPath
ShedToolPath(l, c, toolName) ==
    LET r == GetTool(l, toolName) IN
    IF r.err # "nil" THEN [binPath |-> NoTool, err |-> r.err]
    ELSE CacheToolPath(c, r.t)

\* ------------------------------------------------------------------------
\* State
\* ------------------------------------------------------------------------
VARIABLES
    lf,          \* the lockfile in memory
    lfPrev,      \* the lockfile before the last PutTool or DeleteTool call
    last,        \* the last PutTool or DeleteTool call: [op, t, err]
    prevPutSame, \* the call before last was a successful PutTool(last.t)
    got          \* the GetTool call made since: [name, t, err]

\* The lockfile file: state is "absent", "empty" (created or truncated),
\* "partial" (a document cut short) or "full" (the document doc).
VARIABLES
    file,           \* the file at s.lockfilePath
    lf0,            \* the lockfile in memory when the Shed was created
    file0,          \* the file when the Shed was created
    is,             \* the InstallSet: [tools, Concurrency, notifyCh]
    numCPU,         \* what runtime.NumCPU returned, NotRead before the call
    ctxDone,        \* the context of Apply is done
    pc,             \* where the goroutine that calls Get and Apply is
    concurrency,    \* Apply's local concurrency, the capacity of semCh
    semCh,          \* the number of elements in semCh
    di,             \* the position of the dispatch loop in is.tools
    worker,         \* the goroutine of each tool: where it is
    outcome,        \* what became of each tool
    resultCh,       \* the elements in resultCh, oldest first
    ci,             \* i of the collect loop (the number of results taken)
    completedTools, \* Apply's local completedTools
    errs,           \* Apply's local errs; the errors Parse or Get returned
    notified,       \* the tools sent on notifyCh, oldest first
    ki,             \* the position of the commit loop in completedTools
    ret,            \* what Apply, List or Parse returned, "none" before it returns
    opened,         \* Apply opened the lockfile file
    listOpts,       \* the ListOptions of the call of List
    infos,          \* List's local tools, and the list it returns
    listCancel,     \* List called the cancel function of its context
    gm              \* what ListU reported to FindUpdate for each tool: the
                    \* version of gm.Update, "" when it is nil

VARIABLES
    getOpts,        \* the GetOptions the caller gives to Get: [ToolNames, Update]
    parsed          \* a call of tool.Parse or tool.ParseLax: [name, strict, t, err]

\* ResolveLockfilePath and the file system it reads.  A directory is the
\* sequence of the names from the root to it; a path string is a record
\* [abs, elems, empty]: the elements, ".." among them, of an absolute or
\* relative path, "." having none, or the empty string.
VARIABLES
    cwd,            \* the working directory of the process
    locks,          \* the directories that hold a file named shed.lock
    startDir,       \* the argument of ResolveLockfilePath
    dir,            \* its local dir
    prev,           \* its local prev
    inspected,      \* the directories in which it looked for shed.lock
    lfp             \* the path it returned

\* The cache and the callers of Cache.Install.
VARIABLES
    cache,          \* the directories under the tools directory of the cache
                    \* root, by tool: [exists, mod, bin]
    inst            \* each caller of Install: [pc, t, rt, calls, getd, before, rets]

lfHist == <<lfPrev, last, prevPutSame, got>>

lfVars == <<lf, lfPrev, last, prevPutSame, got>>

applyVars ==
    <<concurrency, semCh, di, worker, outcome, resultCh, ci, completedTools,
      errs, notified, ki, ret, opened>>

listVars == <<listOpts, infos, listCancel, gm>>

resolveVars == <<cwd, locks, startDir, dir, prev, inspected, lfp>>

cacheVars == <<cache, inst>>

restVars == <<getOpts, parsed, resolveVars, cacheVars>>

clientVars == <<file, lf0, file0, restVars, is, numCPU, ctxDone, pc, applyVars, listVars>>

vars == <<lfVars, clientVars>>

NoCall == [op |-> "none", t |-> NoTool, err |-> "nil"]

NoGet == [name |-> NoName, t |-> NoTool, err |-> "none"]

\* ------------------------------------------------------------------------
\* Calls on one Lockfile value
\* ------------------------------------------------------------------------
\* The versions PutTool and DeleteTool are called with.
StoredVersions == {"v1.0.0", "v2.0.0"}

PutVersions == StoredVersions \cup {"v1.2", "3.5.7.124", "master", ""}

DeleteVersions == StoredVersions \cup {""}

\* The version suffixes of the names GetTool is called with.
GetVersions == {"v2.0.0", "master"}

\* The names GetTool is called with: import paths, short names and import
\* paths with a version suffix.
GetNames ==
    {PathName(p) : p \in ImportPaths}
        \cup {PathName(<<Base(p)>>) : p \in ImportPaths}
        \cup {ToolName(p, TRUE, v) : p \in ImportPaths, v \in GetVersions}

\* The program has not panicked.
Running == last.err # "panic" /\ got.err # "panic"

AbsentFile == [state |-> "absent", doc |-> EmptyDoc]

EmptyFile == [state |-> "empty", doc |-> EmptyDoc]

PartialFile == [state |-> "partial", doc |-> EmptyDoc]

FullFile(doc) == [state |-> "full", doc |-> doc]

NotRead == -1

\* The zero value of GetOptions.
\* Neither tool.Parse nor tool.ParseLax has been called.
NoParse == [name |-> NoName, strict |-> FALSE, t |-> NoTool, err |-> "none"]

NoOptions == [ToolNames |-> <<>>, Update |-> FALSE]

\* The empty string as a path.
EmptyString == [abs |-> FALSE, elems |-> <<>>, empty |-> TRUE]

\* ResolveLockfilePath has not been called.
NoResolve ==
    /\ cwd = <<>>
    /\ locks = {}
    /\ startDir = EmptyString
    /\ dir = EmptyString
    /\ prev = EmptyString
    /\ inspected = {}
    /\ lfp = EmptyString

\* There is no cache and Cache.Install has no caller.
NoInstall ==
    /\ cache = <<>>
    /\ inst = <<>>

\* Apply has not been called.
NoApply ==
    /\ concurrency = 0
    /\ semCh = 0
    /\ di = 1
    /\ worker = <<>>
    /\ outcome = <<>>
    /\ resultCh = <<>>
    /\ ci = 0
    /\ completedTools = <<>>
    /\ errs = <<>>
    /\ notified = <<>>
    /\ ki = 1
    /\ ret = "none"
    /\ opened = FALSE
    /\ listOpts = [ShowUpdates |-> FALSE, Concurrency |-> 0]
    /\ infos = <<>>
    /\ listCancel = FALSE
    /\ gm = <<>>

\* No call on the lockfile has been recorded.
NoHistory ==
    /\ lfPrev = EmptyLockfile
    /\ last = NoCall
    /\ prevPutSame = FALSE
    /\ got = NoGet

\* A zero value Lockfile, used without a Shed.
InitLockfile ==
    /\ lf = EmptyLockfile
    /\ NoHistory
    /\ file = AbsentFile
    /\ lf0 = EmptyLockfile
    /\ file0 = AbsentFile
    /\ is = [tools |-> <<>>, Concurrency |-> 0, notifyCh |-> "nil"]
    /\ numCPU = NotRead
    /\ ctxDone = FALSE
    /\ pc = "lockfile"
    /\ NoApply
    /\ parsed = NoParse
    /\ NoResolve
    /\ NoInstall
    /\ getOpts = NoOptions

\* The calls on the lockfile are a sequence of PutTool and DeleteTool calls
\* followed by one GetTool call: GetTool changes nothing in the lockfile, so
\* the calls made after it reach no lockfile that is not reached without it.
CallPutTool ==
    \E p \in ImportPaths, v \in PutVersions :
        LET t == Tool(p, v)
            r == PutTool(lf, t)
        IN  /\ Running
            /\ got = NoGet
            /\ Len(r.lf.tools) <= MaxTools
            /\ lf' = r.lf
            /\ lfPrev' = lf
            /\ last' = [op |-> "PutTool", t |-> t, err |-> r.err]
            /\ prevPutSame' = (last.op = "PutTool" /\ last.t = t /\ last.err = "nil")
            /\ got' = NoGet
            /\ UNCHANGED clientVars

CallDeleteTool ==
    \E p \in ImportPaths, v \in DeleteVersions :
        LET t == Tool(p, v)
            r == DeleteTool(lf, t)
        IN  /\ Running
            /\ got = NoGet
            /\ lf' = r.lf
            /\ lfPrev' = lf
            /\ last' = [op |-> "DeleteTool", t |-> t, err |-> r.err]
            /\ prevPutSame' = (last.op = "PutTool" /\ last.t = t /\ last.err = "nil")
            /\ got' = NoGet
            /\ UNCHANGED clientVars

CallGetTool ==
    \E name \in GetNames :
        LET r == GetTool(lf, name) IN
        /\ Running
        /\ got = NoGet
        /\ got' = [name |-> name, t |-> r.t, err |-> r.err]
        /\ UNCHANGED <<lf, lfPrev, last, prevPutSame, clientVars>>

NextLockfile == CallPutTool \/ CallDeleteTool \/ CallGetTool

SpecLockfile == InitLockfile /\ [][NextLockfile]_vars

\* ------------------------------------------------------------------------
\* Properties of the lockfile
\* ------------------------------------------------------------------------
\* The index entries (name, position in the bucket) that hold tool position i.
IndexEntries(l, i) ==
    {e \in {<<n, k>> : n \in DOMAIN l.nameMap, k \in 1..MaxTools + 1} :
        e[2] <= Len(l.nameMap[e[1]]) /\ l.nameMap[e[1]][e[2]] = i}

\* C1: the short-name index and the tool vector agree: every position in the
\* bucket of a name n is a position of the tool vector holding a tool named
\* n, every position of the tool vector is in exactly one bucket exactly
\* once, and no bucket is empty.
IndexAgreesWithTools ==
    /\ \A n \in DOMAIN lf.nameMap :
          /\ Len(lf.nameMap[n]) > 0
          /\ \A k \in 1..Len(lf.nameMap[n]) :
                /\ lf.nameMap[n][k] \in 1..Len(lf.tools)
                /\ Name(lf.tools[lf.nameMap[n][k]]) = n
    /\ \A i \in 1..Len(lf.tools) : Cardinality(IndexEntries(lf, i)) = 1

\* C2: after PutTool(t) and then DeleteTool(t), GetTool(t.ImportPath) fails
\* with ErrNotFound: it returns no tool and does not panic.
PutDeleteGetNotFound ==
    (/\ prevPutSame
     /\ last.op = "DeleteTool"
     /\ got.err # "none"
     /\ got.name = PathName(last.t.ImportPath))
        => (got.err = "ErrNotFound" /\ got.t = NoTool)

\* C3: PutTool(t) with a canonical semantic version succeeds, and GetTool of
\* t's import path right after it returns t without error.
PutThenGetReturnsIt ==
    (last.op = "PutTool" /\ IsCanonical(last.t.Version))
        => /\ last.err = "nil"
           /\ (got.err # "none" /\ got.name = PathName(last.t.ImportPath))
                 => (got.err = "nil" /\ got.t = last.t)

\* C14: PutTool(t) with a version that is not a canonical semantic version
\* (empty, master, 3.5.7.124, the shorthand v1.2) fails with
\* ErrInvalidVersion and leaves the stored tools and LenTools as they were.
PutInvalidVersionFails ==
    (last.op = "PutTool" /\ ~IsCanonical(last.t.Version))
        => /\ last.err = "ErrInvalidVersion"
           /\ lf.tools = lfPrev.tools
           /\ LenTools(lf) = LenTools(lfPrev)

\* The positions of l.tools that hold a tool with import path p.
StoredAt(l, p) == {i \in 1..Len(l.tools) : l.tools[i].ImportPath = p}

\* C15: no two stored tools share an import path: a PutTool that succeeds
\* on an import path already stored puts the tool in the place of that entry
\* and leaves LenTools as it was, and on a new import path it makes LenTools
\* grow by one.
ImportPathsUnique ==
    /\ \A p \in ImportPaths : Cardinality(StoredAt(lf, p)) <= 1
    /\ (last.op = "PutTool" /\ last.err = "nil") =>
          /\ \E i \in StoredAt(lf, last.t.ImportPath) : lf.tools[i] = last.t
          /\ IF StoredAt(lfPrev, last.t.ImportPath) # {}
             THEN LenTools(lf) = LenTools(lfPrev)
             ELSE LenTools(lf) = LenTools(lfPrev) + 1

\* The positions of l.tools that hold a tool with short name n.
NamedAt(l, n) == {i \in 1..Len(l.tools) : Name(l.tools[i]) = n}

\* C16: GetTool(n) fails with ErrNotFound when no stored tool has n as its
\* short name or import path, fails with ErrMultipleTools when n is the
\* short name of two or more stored tools, and returns the stored tool when
\* n is the import path of a stored tool, shared short name or not.
GetToolFindsByName ==
    (got.err # "none" /\ ~got.name.at) =>
        LET n == got.name.path IN
        IF Len(n) = 1
        THEN /\ NamedAt(lf, n[1]) = {} => (got.err = "ErrNotFound" /\ got.t = NoTool)
             /\ Cardinality(NamedAt(lf, n[1])) >= 2
                   => (got.err = "ErrMultipleTools" /\ got.t = NoTool)
        ELSE /\ StoredAt(lf, n) = {} => (got.err = "ErrNotFound" /\ got.t = NoTool)
             /\ StoredAt(lf, n) # {}
                   => (got.err = "nil" /\ \E i \in StoredAt(lf, n) : got.t = lf.tools[i])

\* C17: GetTool(path@v) fails with ErrIncorrectVersion and returns the
\* stored tool when path is stored with another version than v, and fails
\* with ErrNotFound when path is not stored, whatever the suffix is.
GetToolChecksVersion ==
    (got.err # "none" /\ got.name.at) =>
        LET p == got.name.path IN
        /\ StoredAt(lf, p) = {} => (got.err = "ErrNotFound" /\ got.t = NoTool)
        /\ \A i \in StoredAt(lf, p) :
              lf.tools[i].Version # got.name.version
                  => (got.err = "ErrIncorrectVersion" /\ got.t = lf.tools[i])

\* The tools stored in l.
ToolSet(l) == {l.tools[i] : i \in 1..Len(l.tools)}

\* C18: DeleteTool(t) never fails; it leaves the lockfile as it was when no
\* stored tool has t's import path, or when t.Version is not empty and is
\* not the stored version; with an empty t.Version it removes the entry of
\* t's import path, whatever its version, and no other entry.
DeleteToolFrame ==
    last.op = "DeleteTool" =>
        LET t == last.t
            stored == StoredAt(lfPrev, t.ImportPath)
        IN  /\ last.err = "nil"
            /\ (\/ stored = {}
                \/ /\ t.Version # ""
                   /\ \A i \in stored : lfPrev.tools[i].Version # t.Version)
                  => lf = lfPrev
            /\ (t.Version = "" /\ stored # {})
                  => /\ StoredAt(lf, t.ImportPath) = {}
                     /\ ToolSet(lf) = ToolSet(lfPrev) \ {lfPrev.tools[i] : i \in stored}
                     /\ LenTools(lf) = LenTools(lfPrev) - 1

\* The multiset of the tools a lockfile iterates: how often each occurs.
ToolBag(l) == [t \in ToolSet(l) |-> Cardinality({i \in 1..Len(l.tools) : l.tools[i] = t})]

\* C19: WriteTo followed by Parse of what was written succeeds and gives a
\* lockfile that iterates the same multiset of tools, whatever the order in
\* which Parse goes through the entries.
WriteToParseRoundTrip ==
    \A r \in ParseDoc(WriteTo(lf)) :
        /\ ~r.nil
        /\ r.errs = <<>>
        /\ ToolBag(r.lf) = ToolBag(lf)

\* ------------------------------------------------------------------------
\* lockfile.Parse on a lockfile document
\* ------------------------------------------------------------------------
\* Bound: the number of entries of a document given to Parse.
MaxEntries == 3

\* The import paths of the entries: those of the model and one that
\* module.CheckPath rejects, its first element not being a domain name.
DocPaths == ImportPaths \cup {<<"local", "z">>}

\* The versions of the entries.
DocVersions == {"v1.0.0", "v1.2", "master", ""}

\* The documents given to Parse.
Docs ==
    UNION {[S -> DocVersions] : S \in {T \in SUBSET DocPaths : Cardinality(T) <= MaxEntries}}

\* The reader holds a document, or bytes that are no JSON document.
InitParse ==
    /\ file \in {FullFile(d) : d \in Docs} \cup {EmptyFile, PartialFile}
    /\ lf = EmptyLockfile
    /\ lf0 = EmptyLockfile
    /\ file0 = file
    /\ NoHistory
    /\ is = [tools |-> <<>>, Concurrency |-> 0, notifyCh |-> "nil"]
    /\ numCPU = NotRead
    /\ ctxDone = FALSE
    /\ pc = "parse"
    /\ NoApply
    /\ parsed = NoParse
    /\ NoResolve
    /\ NoInstall
    /\ getOpts = NoOptions

parseFrame ==
    UNCHANGED <<lfHist, file, lf0, file0, restVars, is, numCPU, ctxDone, concurrency, semCh, di, worker,
                outcome, resultCh, ci, completedTools, notified, ki, opened, listVars>>

\* Parse of a document: the entries are gone through in some order.
CallParse ==
    /\ pc = "parse"
    /\ file.state = "full"
    /\ \E r \in ParseDoc(file.doc) :
          /\ lf' = r.lf
          /\ errs' = r.errs
          /\ ret' = IF r.nil THEN "errs" ELSE "nil"
    /\ pc' = "parsed"
    /\ parseFrame

\* Parse of bytes the JSON decoder rejects: one error and no lockfile.
CallParseUndecodable ==
    /\ pc = "parse"
    /\ file.state \in {"empty", "partial"}
    /\ ret' = "DecodeFailed"
    /\ pc' = "parsed"
    /\ UNCHANGED <<lf, errs>>
    /\ parseFrame

NextParse == CallParse \/ CallParseUndecodable

SpecParse == InitParse /\ [][NextParse]_vars

\* The entries of the document that tool.Parse rejects: the import path is
\* not valid or the version is not a semantic version.
BadEntries(doc) == {e \in DocTools(doc) : ~CheckPath(e.ImportPath) \/ ~IsValid(e.Version)}

\* C20: Parse drops no entry silently: it returns a lockfile that holds one
\* tool for every entry of the document, or no lockfile and a list with one
\* error for each entry that did not parse.
ParseDropsNoEntry ==
    (pc = "parsed" /\ file.state = "full") =>
        \/ /\ ret = "nil"
           /\ errs = <<>>
           /\ LenTools(lf) = Cardinality(DOMAIN file.doc)
           /\ ToolSet(lf) = DocTools(file.doc)
        \/ /\ ret = "errs"
           /\ lf = EmptyLockfile
           /\ BadEntries(file.doc) # {}
           /\ Len(errs) = Cardinality(BadEntries(file.doc))

\* Parse returned two errors for a document of three entries.
ParseDropsNoEntryWitness ==
    /\ pc = "parsed"
    /\ file.state = "full"
    /\ Cardinality(DOMAIN file.doc) = 3
    /\ ret = "errs"
    /\ Len(errs) = 2

\* ------------------------------------------------------------------------
\* A Shed: Get and InstallSet.Apply
\* ------------------------------------------------------------------------
\* Bounds: the number of names given to Get and the largest Concurrency set.
MaxReq == 2

MaxConc == 2

\* The lockfile files a Shed is created on.
InitialPaths == {<<"a.io", "x">>, <<"c.io", "y">>}

InitialFiles ==
    {AbsentFile} \cup
    {FullFile([p \in S |-> "v1.0.0"]) : S \in (SUBSET InitialPaths) \ {{}}}

\* The names given to Get.
RequestNames ==
    { ToolName(<<"a.io", "x">>, TRUE, noneVersion),
      ToolName(<<"c.io", "y">>, TRUE, noneVersion),
      ToolName(<<"b.io", "x">>, FALSE, "") }

Requests == UNION {[1..n -> RequestNames] : n \in 0..MaxReq}

\* A request that names one import path twice, with two versions.
DuplicateRequest ==
    <<ToolName(<<"b.io", "x">>, FALSE, ""), ToolName(<<"b.io", "x">>, TRUE, "v1.0.0")>>

\* The results runtime.NumCPU may give.
CPUCounts == {0, 2}

\* NewShed: the lockfile is empty when the file does not exist and parsed
\* from it otherwise.
InitShed ==
    /\ file \in InitialFiles
    /\ lf \in (IF file.state = "absent" THEN {EmptyLockfile} ELSE ParseLockfile(file.doc))
    /\ lf0 = lf
    /\ file0 = file
    /\ NoHistory
    /\ is = [tools |-> <<>>, Concurrency |-> 0, notifyCh |-> "nil"]
    /\ numCPU = NotRead
    /\ ctxDone = FALSE
    /\ pc = "idle"
    /\ NoApply
    /\ parsed = NoParse
    /\ NoResolve
    /\ NoInstall
    \* the names with update unset, or no name and update set
    /\ getOpts \in {[ToolNames |-> names, Update |-> FALSE] :
                        names \in Requests \cup {DuplicateRequest}}
                       \cup {[ToolNames |-> <<>>, Update |-> TRUE]}

\* Shed.Get writing the versions it rewrites into the tools of the lockfile,
\* as a loop over pointers to the elements of lf.tools does.
CallGetInPlace ==
    LET r == Get(lf, getOpts.ToolNames, getOpts.Update) IN
    /\ pc = "idle"
    /\ IF Len(r.errs) > 0
       THEN /\ pc' = "getFailed"
            /\ errs' = r.errs
            /\ UNCHANGED <<is, lf>>
       ELSE /\ pc' = "ready"
            /\ is' = [tools |-> r.tools, Concurrency |-> 0, notifyCh |-> "nil"]
            /\ lf' = [lf EXCEPT !.tools =
                         [i \in 1..Len(lf.tools) |->
                             IF \E j \in 1..Len(r.tools) :
                                    r.tools[j] = Tool(lf.tools[i].ImportPath, latestVersion)
                             THEN Tool(lf.tools[i].ImportPath, latestVersion)
                             ELSE lf.tools[i]]]
            /\ UNCHANGED errs
    /\ UNCHANGED <<lfHist, file, lf0, file0, restVars, listVars, numCPU, ctxDone,
                   concurrency, semCh, di, worker, outcome, resultCh, ci,
                   completedTools, notified, ki, ret, opened>>

\* Shed.Get with the options of the caller.
CallGet ==
    LET r == Get(lf, getOpts.ToolNames, getOpts.Update) IN
    /\ pc = "idle"
    /\ IF Len(r.errs) > 0
       THEN /\ pc' = "getFailed"
            /\ errs' = r.errs
            /\ UNCHANGED is
       ELSE /\ pc' = "ready"
            /\ is' = [tools |-> r.tools, Concurrency |-> 0, notifyCh |-> "nil"]
            /\ UNCHANGED errs
    /\ UNCHANGED <<lfVars, file, lf0, file0, restVars, listVars, numCPU, ctxDone,
                   concurrency, semCh, di, worker, outcome, resultCh, ci,
                   completedTools, notified, ki, ret, opened>>

\* The caller sets InstallSet.Concurrency.
SetConcurrency ==
    \E c \in 1..MaxConc :
        /\ pc = "ready"
        /\ is.Concurrency = 0
        /\ is' = [is EXCEPT !.Concurrency = c]
        /\ UNCHANGED <<lfVars, file, lf0, file0, restVars, listVars, numCPU, ctxDone, pc, applyVars>>

\* InstallSet.Notify
Notify ==
    /\ pc = "ready"
    /\ is.notifyCh = "nil"
    /\ is' = [is EXCEPT !.notifyCh = "chan"]
    /\ UNCHANGED <<lfVars, file, lf0, file0, restVars, listVars, numCPU, ctxDone, pc, applyVars>>

\* The context given to Apply becomes done, before or during Apply.
Cancel ==
    /\ pc \notin {"done", "listDone", "panic", "getFailed"}
    /\ ~ctxDone
    /\ ctxDone' = TRUE
    /\ UNCHANGED <<lfVars, file, lf0, file0, restVars, listVars, is, numCPU, pc, applyVars>>

\* InstallSet.Apply up to the dispatch loop: the channels are made.
ApplyStart ==
    \E n \in (IF is.Concurrency = 0 THEN CPUCounts ELSE {NotRead}) :
        /\ pc = "ready"
        /\ numCPU' = n
        /\ concurrency' = getConcurrency(is.Concurrency, n)
        /\ worker' = [i \in 1..Len(is.tools) |-> "idle"]
        /\ outcome' = [i \in 1..Len(is.tools) |-> "pending"]
        /\ pc' = IF Len(is.tools) = 0 THEN "collect" ELSE "dispatch"
        /\ UNCHANGED <<lfVars, file, lf0, file0, restVars, listVars, is, ctxDone, semCh, di, resultCh,
                       ci, completedTools, errs, notified, ki, ret, opened>>

\* The dispatch loop without the send on semCh: every goroutine is started
\* at once.
DispatchNoSemaphore ==
    /\ pc = "dispatch"
    /\ semCh' = semCh + 1
    /\ worker' = [worker EXCEPT ![di] = "started"]
    /\ di' = di + 1
    /\ pc' = IF di = Len(is.tools) THEN "collect" ELSE "dispatch"
    /\ UNCHANGED <<lfVars, file, lf0, file0, restVars, listVars, is, numCPU, ctxDone, concurrency, outcome,
                   resultCh, ci, completedTools, errs, notified, ki, ret, opened>>

\* One round of the dispatch loop: a slot of semCh is taken and the
\* goroutine of the tool is started.
Dispatch ==
    /\ pc = "dispatch"
    /\ semCh < concurrency
    /\ semCh' = semCh + 1
    /\ worker' = [worker EXCEPT ![di] = "started"]
    /\ di' = di + 1
    /\ pc' = IF di = Len(is.tools) THEN "collect" ELSE "dispatch"
    /\ UNCHANGED <<lfVars, file, lf0, file0, restVars, listVars, is, numCPU, ctxDone, concurrency, outcome,
                   resultCh, ci, completedTools, errs, notified, ki, ret, opened>>

workerFrame ==
    UNCHANGED <<lfVars, file, lf0, file0, restVars, listVars, is, numCPU, ctxDone, pc, concurrency, di,
                ci, completedTools, errs, notified, ki, ret, opened>>

\* The goroutine of a tool with version none sends the tool as its result.
WorkerRemove ==
    \E i \in 1..Len(worker) :
        /\ worker[i] = "started"
        /\ is.tools[i].Version = noneVersion
        /\ resultCh' = Append(resultCh, [t |-> is.tools[i], err |-> "nil"])
        /\ outcome' = [outcome EXCEPT ![i] = "removed"]
        /\ worker' = [worker EXCEPT ![i] = "sent"]
        /\ UNCHANGED semCh
        /\ workerFrame

\* The goroutine of a tool calls Cache.Install, which polls the context: a
\* done context makes it return the context's error at once.
WorkerInstall ==
    \E i \in 1..Len(worker) :
        /\ worker[i] = "started"
        /\ is.tools[i].Version # noneVersion
        /\ IF ctxDone
           THEN /\ resultCh' = Append(resultCh, [t |-> NoTool, err |-> "InstallFailed"])
                /\ outcome' = [outcome EXCEPT ![i] = "failed"]
                /\ worker' = [worker EXCEPT ![i] = "sent"]
           ELSE /\ worker' = [worker EXCEPT ![i] = "installing"]
                /\ UNCHANGED <<resultCh, outcome>>
        /\ UNCHANGED semCh
        /\ workerFrame

\* Cache.Install returns the installed tool, whose binary is in the cache
\* from then on, and the goroutine sends it.
InstallSucceeds ==
    \E i \in 1..Len(worker) :
        /\ worker[i] = "installing"
        /\ cache' = InstallInto(cache, is.tools[i])
        /\ resultCh' = Append(resultCh, [t |-> Installed(is.tools[i]), err |-> "nil"])
        /\ outcome' = [outcome EXCEPT ![i] = "installed"]
        /\ worker' = [worker EXCEPT ![i] = "sent"]
        /\ UNCHANGED <<lfVars, file, lf0, file0, getOpts, parsed, resolveVars, inst, listVars, is,
                       numCPU, ctxDone, pc, concurrency, semCh, di, ci, completedTools,
                       errs, notified, ki, ret, opened>>

\* Cache.Install returns an error and the goroutine sends it.
InstallFails ==
    \E i \in 1..Len(worker) :
        /\ worker[i] = "installing"
        /\ resultCh' = Append(resultCh, [t |-> NoTool, err |-> "InstallFailed"])
        /\ outcome' = [outcome EXCEPT ![i] = "failed"]
        /\ worker' = [worker EXCEPT ![i] = "sent"]
        /\ UNCHANGED semCh
        /\ workerFrame

\* The deferred function of the goroutine gives its slot of semCh back.
Release ==
    \E i \in 1..Len(worker) :
        /\ worker[i] = "sent"
        /\ semCh' = semCh - 1
        /\ worker' = [worker EXCEPT ![i] = "exited"]
        /\ UNCHANGED <<resultCh, outcome>>
        /\ workerFrame

\* The collect loop returning at the first failed result, as List does.
CollectResultFailFast ==
    /\ pc = "collect"
    /\ ci < Len(is.tools)
    /\ Len(resultCh) > 0
    /\ LET r == Head(resultCh) IN
       /\ resultCh' = Tail(resultCh)
       /\ IF r.err # "nil"
          THEN /\ errs' = Append(errs, r.err)
               /\ ci' = ci + 1
               /\ ret' = "errs"
               /\ pc' = "done"
               /\ UNCHANGED completedTools
          ELSE /\ completedTools' = Append(completedTools, r.t)
               /\ IF is.notifyCh # "nil"
                  THEN pc' = "notify" /\ UNCHANGED ci
                  ELSE ci' = ci + 1 /\ UNCHANGED pc
               /\ UNCHANGED <<errs, ret>>
    /\ UNCHANGED <<lfVars, file, lf0, file0, restVars, listVars, is, numCPU, ctxDone, concurrency, semCh, di,
                   worker, outcome, notified, ki, opened>>

\* The select of the collect loop takes a result.
CollectResult ==
    /\ pc = "collect"
    /\ ci < Len(is.tools)
    /\ Len(resultCh) > 0
    /\ LET r == Head(resultCh) IN
       /\ resultCh' = Tail(resultCh)
       /\ IF r.err # "nil"
          THEN /\ errs' = Append(errs, r.err)
               /\ ci' = ci + 1
               /\ UNCHANGED <<completedTools, pc>>
          ELSE /\ completedTools' = Append(completedTools, r.t)
               /\ IF is.notifyCh # "nil"
                  THEN pc' = "notify" /\ UNCHANGED ci
                  ELSE ci' = ci + 1 /\ UNCHANGED pc
               /\ UNCHANGED errs
    /\ UNCHANGED <<lfVars, file, lf0, file0, restVars, listVars, is, numCPU, ctxDone, concurrency, semCh, di,
                   worker, outcome, notified, ki, ret, opened>>

\* The select of the collect loop takes ctx.Done(): Apply returns ctx.Err().
CollectCancelled ==
    /\ pc = "collect"
    /\ ci < Len(is.tools)
    /\ ctxDone
    /\ ret' = "ctx.Err"
    /\ pc' = "done"
    /\ UNCHANGED <<lfVars, file, lf0, file0, restVars, listVars, is, numCPU, ctxDone, concurrency, semCh, di,
                   worker, outcome, resultCh, ci, completedTools, errs, notified, ki,
                   opened>>

\* A send on notifyCh that does not wait for the receiver: the tool is lost.
NotifySendDropped ==
    /\ pc = "notify"
    /\ ci' = ci + 1
    /\ pc' = "collect"
    /\ UNCHANGED <<lfVars, file, lf0, file0, restVars, listVars, is, numCPU, ctxDone, concurrency, semCh, di,
                   worker, outcome, resultCh, completedTools, errs, notified, ki, ret, opened>>

\* The send on notifyCh goes through: the receiver takes the tool.
NotifySend ==
    /\ pc = "notify"
    /\ notified' = Append(notified, completedTools[Len(completedTools)])
    /\ ci' = ci + 1
    /\ pc' = "collect"
    /\ UNCHANGED <<lfVars, file, lf0, file0, restVars, listVars, is, numCPU, ctxDone, concurrency, semCh, di,
                   worker, outcome, resultCh, completedTools, errs, ki, ret, opened>>

\* The end of the collect loop without the check of errs: the commit is made
\* whatever the installs returned.
CollectEndIgnoresErrs ==
    /\ pc = "collect"
    /\ ci = Len(is.tools)
    /\ pc' = IF Len(completedTools) = 0 THEN "open" ELSE "commit"
    /\ UNCHANGED <<lfVars, file, lf0, file0, restVars, listVars, is, numCPU, ctxDone, concurrency, semCh, di,
                   worker, outcome, resultCh, ci, completedTools, errs, notified, ki,
                   ret, opened>>

\* The collect loop ending one result early.
CollectEndOffByOne ==
    /\ pc = "collect"
    /\ ci >= Len(is.tools) - 1
    /\ IF Len(errs) > 0
       THEN ret' = "errs" /\ pc' = "done"
       ELSE /\ pc' = IF Len(completedTools) = 0 THEN "open" ELSE "commit"
            /\ UNCHANGED ret
    /\ UNCHANGED <<lfVars, file, lf0, file0, restVars, listVars, is, numCPU, ctxDone, concurrency, semCh, di,
                   worker, outcome, resultCh, ci, completedTools, errs, notified, ki,
                   opened>>

\* The collect loop is over: Apply returns the errors if there are any.
CollectEnd ==
    /\ pc = "collect"
    /\ ci = Len(is.tools)
    /\ IF Len(errs) > 0
       THEN ret' = "errs" /\ pc' = "done"
       ELSE /\ pc' = IF Len(completedTools) = 0 THEN "open" ELSE "commit"
            /\ UNCHANGED ret
    /\ UNCHANGED <<lfVars, file, lf0, file0, restVars, listVars, is, numCPU, ctxDone, concurrency, semCh, di,
                   worker, outcome, resultCh, ci, completedTools, errs, notified, ki,
                   opened>>

\* One round of the commit loop.
Commit ==
    /\ pc = "commit"
    /\ LET t == completedTools[ki]
           r == IF t.Version = noneVersion
                THEN DeleteTool(lf, Tool(t.ImportPath, ""))
                ELSE PutTool(lf, t)
       IN  /\ lf' = r.lf
           /\ IF r.err = "panic" THEN pc' = "panic" /\ UNCHANGED <<ki, ret>>
              ELSE IF r.err # "nil"
              THEN ret' = "PutToolFailed" /\ pc' = "done" /\ UNCHANGED ki
              ELSE /\ ki' = ki + 1
                   /\ pc' = IF ki = Len(completedTools) THEN "open" ELSE "commit"
                   /\ UNCHANGED ret
    /\ UNCHANGED <<lfHist, file, lf0, file0, restVars, listVars, is, numCPU, ctxDone, concurrency, semCh, di,
                   worker, outcome, resultCh, ci, completedTools, errs, notified,
                   opened>>

ioFrame ==
    UNCHANGED <<lfVars, lf0, file0, restVars, listVars, is, numCPU, ctxDone, concurrency, semCh, di, worker,
                outcome, resultCh, ci, completedTools, errs, notified, ki>>

\* writeLockfile: os.OpenFile creates or truncates the file.
OpenFile ==
    /\ pc = "open"
    /\ file' = EmptyFile
    /\ opened' = TRUE
    /\ pc' = "write"
    /\ UNCHANGED ret
    /\ ioFrame

\* writeLockfile: os.OpenFile fails.
OpenFileFails ==
    /\ pc = "open"
    /\ ret' = "OpenFailed"
    /\ pc' = "done"
    /\ UNCHANGED <<file, opened>>
    /\ ioFrame

\* writeLockfile: WriteTo writes the document and Apply returns nil.
WriteFile ==
    /\ pc = "write"
    /\ file' = FullFile(WriteTo(lf))
    /\ ret' = "nil"
    /\ pc' = "done"
    /\ UNCHANGED opened
    /\ ioFrame

\* writeLockfile: the write fails after none or a part of the document.
WriteFileFails ==
    /\ pc = "write"
    /\ file' \in {EmptyFile, PartialFile}
    /\ ret' = "WriteFailed"
    /\ pc' = "done"
    /\ UNCHANGED opened
    /\ ioFrame

\* ------------------------------------------------------------------------
\* Shed.List
\* ------------------------------------------------------------------------
\* The order of the strings that are elements of import paths.
ElementRank ==
    [e \in {"a.io", "b.io", "c.io", "x", "y"} |->
        CASE e = "a.io" -> 1 [] e = "b.io" -> 2 [] e = "c.io" -> 3
          [] e = "x" -> 4 [] e = "y" -> 5]

\* p < q for import paths as strings, from element i on.
RECURSIVE PathLessFrom(_, _, _)
PathLessFrom(p, q, i) ==
    IF i > Len(q) THEN FALSE
    ELSE IF i > Len(p) THEN TRUE
    ELSE IF p[i] # q[i] THEN ElementRank[p[i]] < ElementRank[q[i]]
    ELSE PathLessFrom(p, q, i + 1)

PathLess(p, q) == PathLessFrom(p, q, 1)

\* sort.Slice by Tool.ImportPath, as an insertion of s[n] into the sorted s[1..n-1].
RECURSIVE SortInfos(_, _)
SortInfos(s, n) ==
    IF n = 0 THEN <<>>
    ELSE LET sorted == SortInfos(s, n - 1)
             x == s[n]
             k == Cardinality({j \in 1..Len(sorted) :
                                  ~PathLess(x.Tool.ImportPath, sorted[j].Tool.ImportPath)})
         IN  SubSeq(sorted, 1, k) \o <<x>> \o SubSeq(sorted, k + 1, Len(sorted))

ToolInfo(t, latest) == [Tool |-> t, LatestVersion |-> latest]

\* The newer versions the driver may report for a tool; "" is none.
UpdateVersions == {"", "v2.0.0"}

\* List without ShowUpdates: the tools of the lockfile, sorted.
ListPlain ==
    /\ pc = "idle"
    /\ infos' = SortInfos([i \in 1..Len(lf.tools) |-> ToolInfo(lf.tools[i], "")],
                          Len(lf.tools))
    /\ ret' = "nil"
    /\ pc' = "listDone"
    /\ UNCHANGED <<lfVars, file, lf0, file0, restVars, is, numCPU, ctxDone, concurrency, semCh,
                   di, worker, outcome, resultCh, ci, completedTools, errs, notified,
                   ki, opened, listOpts, listCancel, gm>>

\* List with ShowUpdates, up to the dispatch loop.
ListStart ==
    \E c \in 0..MaxConc :
      \E n \in (IF c = 0 THEN CPUCounts ELSE {NotRead}) :
        /\ pc = "idle"
        /\ numCPU' = n
        /\ concurrency' = getConcurrency(c, n)
        /\ listOpts' = [ShowUpdates |-> TRUE, Concurrency |-> c]
        /\ worker' = [i \in 1..Len(lf.tools) |-> "idle"]
        /\ outcome' = [i \in 1..Len(lf.tools) |-> "pending"]
        /\ pc' = IF Len(lf.tools) = 0 THEN "listCollect" ELSE "listDispatch"
        /\ UNCHANGED <<lfVars, file, lf0, file0, restVars, is, infos, listCancel, gm, ctxDone, semCh,
                       di, resultCh, ci, completedTools, errs, notified, ki, ret, opened>>

\* One round of the dispatch loop of List.
ListDispatch ==
    /\ pc = "listDispatch"
    /\ semCh < concurrency
    /\ semCh' = semCh + 1
    /\ worker' = [worker EXCEPT ![di] = "startedFind"]
    /\ di' = di + 1
    /\ pc' = IF di = Len(lf.tools) THEN "listCollect" ELSE "listDispatch"
    /\ UNCHANGED <<lfVars, file, lf0, file0, restVars, listVars, is, numCPU, ctxDone, concurrency,
                   outcome, resultCh, ci, completedTools, errs, notified, ki, ret, opened>>

\* The goroutine of a tool calls Cache.FindUpdate.
WorkerFind ==
    \E i \in 1..Len(worker) :
        /\ worker[i] = "startedFind"
        /\ worker' = [worker EXCEPT ![i] = "finding"]
        /\ UNCHANGED <<semCh, resultCh, outcome>>
        /\ workerFrame

\* Cache.FindUpdate returns a version and the goroutine sends the result.
FindSucceeds ==
    \E i \in 1..Len(worker), latest \in UpdateVersions :
        /\ worker[i] = "finding"
        /\ gm' = [j \in (DOMAIN gm) \cup {i} |-> IF j = i THEN latest ELSE gm[j]]
        /\ resultCh' = Append(resultCh, [t |-> ToolInfo(lf.tools[i], latest), err |-> "nil"])
        /\ outcome' = [outcome EXCEPT ![i] = "found"]
        /\ worker' = [worker EXCEPT ![i] = "sent"]
        /\ UNCHANGED <<lfVars, file, lf0, file0, restVars, listOpts, infos, listCancel, is,
                       numCPU, ctxDone, pc, concurrency, semCh, di, ci, completedTools,
                       errs, notified, ki, ret, opened>>

\* Cache.FindUpdate returns an error and the goroutine sends it.
FindFails ==
    \E i \in 1..Len(worker) :
        /\ worker[i] = "finding"
        /\ resultCh' = Append(resultCh, [t |-> ToolInfo(NoTool, ""), err |-> "FindUpdateFailed"])
        /\ outcome' = [outcome EXCEPT ![i] = "failed"]
        /\ worker' = [worker EXCEPT ![i] = "sent"]
        /\ UNCHANGED semCh
        /\ workerFrame

\* The select of the collect loop of List takes a result: an error cancels
\* the context of the update checks and is returned.
ListCollectResult ==
    /\ pc = "listCollect"
    /\ ci < Len(lf.tools)
    /\ Len(resultCh) > 0
    /\ LET r == Head(resultCh) IN
       /\ resultCh' = Tail(resultCh)
       /\ IF r.err # "nil"
          THEN /\ listCancel' = TRUE
               /\ ret' = r.err
               /\ pc' = "listDone"
               \* return nil, r.err
               /\ infos' = <<>>
               /\ UNCHANGED ci
          ELSE /\ infos' = Append(infos, r.t)
               /\ ci' = ci + 1
               /\ UNCHANGED <<listCancel, ret, pc>>
    /\ UNCHANGED <<lfVars, file, lf0, file0, restVars, is, numCPU, ctxDone, concurrency, semCh, di,
                   worker, outcome, completedTools, errs, notified, ki, opened, listOpts, gm>>

\* The select of the collect loop of List takes ctx.Done().
ListCollectCancelled ==
    /\ pc = "listCollect"
    /\ ci < Len(lf.tools)
    /\ ctxDone
    /\ ret' = "ctx.Err"
    /\ listCancel' = TRUE
    /\ pc' = "listDone"
    \* return nil, ctx.Err()
    /\ infos' = <<>>
    /\ UNCHANGED <<lfVars, file, lf0, file0, restVars, is, numCPU, ctxDone, concurrency, semCh, di,
                   worker, outcome, resultCh, ci, completedTools, errs, notified, ki,
                   opened, listOpts, gm>>

\* The end of the collect loop of List without the sort: the list is
\* returned in the order in which the update checks completed.
ListEndUnsorted ==
    /\ pc = "listCollect"
    /\ ci = Len(lf.tools)
    /\ ret' = "nil"
    /\ listCancel' = TRUE
    /\ pc' = "listDone"
    /\ UNCHANGED <<lfVars, file, lf0, file0, restVars, is, numCPU, ctxDone, concurrency, semCh, di,
                   worker, outcome, resultCh, ci, completedTools, errs, notified, ki,
                   opened, listOpts, infos, gm>>

\* The collect loop of List is over: the list is sorted and returned.
ListEnd ==
    /\ pc = "listCollect"
    /\ ci = Len(lf.tools)
    /\ infos' = SortInfos(infos, Len(infos))
    /\ ret' = "nil"
    /\ listCancel' = TRUE
    /\ pc' = "listDone"
    /\ UNCHANGED <<lfVars, file, lf0, file0, restVars, is, numCPU, ctxDone, concurrency, semCh, di,
                   worker, outcome, resultCh, ci, completedTools, errs, notified, ki,
                   opened, listOpts, gm>>

NextShed ==
    \/ CallGet \/ SetConcurrency \/ Notify \/ Cancel \/ ApplyStart \/ Dispatch
    \/ WorkerRemove \/ WorkerInstall \/ InstallSucceeds \/ InstallFails \/ Release
    \/ CollectResult \/ CollectCancelled \/ NotifySend \/ CollectEnd
    \/ Commit \/ OpenFile \/ OpenFileFails \/ WriteFile \/ WriteFileFails
    \/ ListPlain \/ ListStart \/ ListDispatch \/ WorkerFind \/ FindSucceeds \/ FindFails
    \/ ListCollectResult \/ ListCollectCancelled \/ ListEnd

SpecShed == InitShed /\ [][NextShed]_vars

\* The steps of Apply and of the goroutines it started.  The scheduler runs
\* a goroutine that can take a step, a call of the toolchain driver returns,
\* and the receiver of notifyCh takes what is sent: none of them waits for
\* ever while it can go on.
ApplyStep ==
    \/ Dispatch \/ WorkerRemove \/ WorkerInstall \/ InstallSucceeds \/ InstallFails
    \/ Release \/ CollectResult \/ CollectCancelled \/ NotifySend \/ CollectEnd
    \/ Commit \/ OpenFile \/ OpenFileFails \/ WriteFile \/ WriteFileFails

SpecShedLive == InitShed /\ [][NextShed]_vars /\ WF_vars(ApplyStep)

\* ------------------------------------------------------------------------
\* Properties of Apply
\* ------------------------------------------------------------------------
\* Apply has returned.
ApplyReturned == pc = "done"

\* The tools of the InstallSet whose Cache.Install returned an error.
Failed == {i \in 1..Len(outcome) : outcome[i] = "failed"}

\* The Cache.Install (Cache.FindUpdate) calls that have not returned.
InFlight == {i \in 1..Len(worker) : worker[i] \in {"installing", "finding"}}

\* Every goroutine of Apply has sent its result: no Cache.Install call is
\* still to be made or to return.
AllInstallsReturned ==
    /\ Len(worker) = Len(is.tools)
    /\ \A i \in 1..Len(worker) : worker[i] \in {"sent", "exited"}

\* C4: Apply with a context that is cancelled before or while it runs returns
\* the context's error.
CancelledApplyReturnsCtxErr ==
    (ApplyReturned /\ ctxDone) => ret = "ctx.Err"

\* C5: when the context of Apply is cancelled, before or during Apply, the
\* lockfile in memory and the lockfile file are as they were.
CancelledApplyKeepsLockfile ==
    ctxDone => (lf = lf0 /\ file = file0 /\ ~opened)

\* C6: when an install failed and the context is not cancelled, Apply returns
\* an error list with one entry per failed tool, does not run the commit
\* loop and does not open the lockfile file.
FailedInstallReturnsErrs ==
    (ApplyReturned /\ ~ctxDone /\ Failed # {})
        => /\ ret = "errs"
           /\ Len(errs) = Cardinality(Failed)
           /\ ki = 1 /\ lf = lf0
           /\ ~opened /\ file = file0

FailedInstallReturnsErrsWitness ==
    /\ ApplyReturned /\ ~ctxDone
    /\ Cardinality(Failed) = 2
    /\ \E i \in 1..Len(outcome) : outcome[i] = "removed"
    /\ Len(completedTools) = 1

\* The concurrency the caller asked for: Concurrency when it is not zero, the
\* number of CPUs otherwise, and 1 when that number is not positive.
RequestedConcurrency ==
    LET c == IF listOpts.ShowUpdates THEN listOpts.Concurrency ELSE is.Concurrency IN
    IF c # 0 THEN c
    ELSE IF numCPU >= 1 THEN numCPU ELSE 1

\* C7: during Apply and during List with ShowUpdates, at most C calls of
\* Cache.Install (Cache.FindUpdate) are in flight, where C is the requested
\* concurrency, or the number of CPUs when that is zero, and at least 1.
InFlightBounded ==
    (Len(worker) > 0)
        => /\ Cardinality(InFlight) <= RequestedConcurrency
           /\ RequestedConcurrency >= 1
           /\ concurrency = RequestedConcurrency

\* Apply runs two installs at once while a third tool waits for a slot.
InFlightBoundedWitness ==
    /\ pc = "dispatch"
    /\ concurrency = 2
    /\ Cardinality(InFlight) = 2
    /\ semCh = concurrency

\* List runs one update check while another tool waits for the slot, the
\* number of CPUs being unknown.
InFlightBoundedListWitness ==
    /\ pc = "listDispatch"
    /\ listOpts.Concurrency = 0 /\ numCPU = 0
    /\ Cardinality(InFlight) = 1
    /\ semCh = concurrency

\* A step that changes the lockfile in memory or the lockfile file, or that
\* runs a round of the commit loop.
LockfileStep == lf' # lf \/ file' # file \/ opened' # opened \/ ki' # ki

\* C8: a step that changes the lockfile in memory or the lockfile file, or
\* that runs a round of the commit loop, is taken after every Cache.Install
\* call has returned, and it is a step of the goroutine that called Apply:
\* no goroutine of a tool and no channel moves in it.
CommitAfterInstalls ==
    [][LockfileStep =>
          /\ AllInstallsReturned
          /\ pc \in {"commit", "open", "write"}
          /\ UNCHANGED <<worker, resultCh, semCh>>]_vars

\* Apply has committed and written the results of three tools.
CommitAfterInstallsWitness ==
    /\ ApplyReturned /\ ret = "nil"
    /\ Len(is.tools) = 3
    /\ lf # lf0
    /\ file # file0
    /\ \E i \in 1..Len(worker) : worker[i] = "sent"

\* The document the claim of C9 describes holds in doc: every tool of the
\* InstallSet with version none is absent, every other one has the version
\* Cache.Install resolved, and the paths not in the InstallSet are as in the
\* lockfile before Apply.
CommittedDoc(doc) ==
    LET doc0 == WriteTo(lf0)
        inSet == {is.tools[i].ImportPath : i \in 1..Len(is.tools)}
    IN  /\ \A i \in 1..Len(is.tools) :
              LET t == is.tools[i] IN
              IF t.Version = noneVersion THEN t.ImportPath \notin DOMAIN doc
              ELSE /\ t.ImportPath \in DOMAIN doc
                   /\ doc[t.ImportPath] = Installed(t).Version
        /\ \A p \in ((DOMAIN doc) \cup (DOMAIN doc0)) \ inSet :
              /\ p \in DOMAIN doc /\ p \in DOMAIN doc0
              /\ doc[p] = doc0[p]

\* Apply is over, by a return or a panic, every tool was installed or marked
\* for removal, the context is not cancelled and the file system did not fail.
ApplyEndedAllInstalled ==
    /\ pc \in {"done", "panic"}
    /\ ~ctxDone
    /\ Len(outcome) = Len(is.tools)
    /\ \A i \in 1..Len(outcome) : outcome[i] \in {"installed", "removed"}
    /\ ret \notin {"OpenFailed", "WriteFailed"}

\* C9: when every install succeeds and the context is not cancelled, Apply
\* returns with the lockfile holding the prior tools, the installed tools at
\* their resolved versions and none of the removed paths, one entry per
\* import path, and the lockfile file parses to that lockfile.
ApplyCommitsResults ==
    ApplyEndedAllInstalled
        => /\ ret = "nil"
           /\ CommittedDoc(WriteTo(lf))
           /\ Len(lf.tools) = Cardinality(DOMAIN WriteTo(lf))
           /\ file.state = "full"
           /\ DocTools(file.doc) = {lf.tools[j] : j \in 1..Len(lf.tools)}

\* The commit loop of Apply has ended, by a panic or not.
CommitOver ==
    \/ pc \in {"open", "write", "panic"}
    \/ pc = "done" /\ ret \in {"nil", "OpenFailed", "WriteFailed"}

\* C10: Cache.Install is not called for a tool with version none; after the
\* commit loop no tool with the import path of such a tool is in the
\* lockfile, the commit did not fail, and the tools of the other import
\* paths are still there.
NoneIsRemoved ==
    /\ Len(worker) = Len(is.tools) =>
          \A i \in 1..Len(is.tools) :
              is.tools[i].Version = noneVersion
                  => worker[i] # "installing" /\ outcome[i] \in {"pending", "removed"}
    /\ CommitOver =>
          /\ pc # "panic"
          /\ \A i \in 1..Len(is.tools) :
                is.tools[i].Version = noneVersion
                    => \A j \in 1..Len(lf.tools) :
                          lf.tools[j].ImportPath # is.tools[i].ImportPath
          /\ \A k \in 1..Len(lf0.tools) :
                (\A i \in 1..Len(is.tools) :
                    is.tools[i].Version = noneVersion
                        => is.tools[i].ImportPath # lf0.tools[k].ImportPath)
                    => \E j \in 1..Len(lf.tools) :
                          lf.tools[j].ImportPath = lf0.tools[k].ImportPath

\* ------------------------------------------------------------------------
\* Properties of Apply: dispatch, notification, persistence
\* ------------------------------------------------------------------------
\* Apply is past its dispatch loop.
DispatchOver ==
    /\ ~listOpts.ShowUpdates
    /\ pc \in {"collect", "notify", "commit", "open", "write", "done", "panic"}

\* C11: a failed install does not stop its peers: once the dispatch loop is
\* over the goroutine of every tool was started, whatever became of the
\* others, and an Apply that returns with the context not cancelled took the
\* result of every tool, a tool or an error, out of resultCh.
FailedInstallKeepsPeers ==
    /\ DispatchOver =>
          /\ Len(worker) = Len(is.tools)
          /\ \A i \in 1..Len(worker) : worker[i] # "idle"
    /\ (ApplyReturned /\ ~ctxDone) =>
          /\ ci = Len(is.tools)
          /\ Len(completedTools) + Len(errs) = Len(is.tools)
          /\ \A i \in 1..Len(outcome) : outcome[i] # "pending"
          /\ resultCh = <<>>

\* With one slot, the first tool failed and a tool dispatched after it was
\* installed; Apply returned the errors.
FailedInstallKeepsPeersWitness ==
    /\ ApplyReturned /\ ~ctxDone
    /\ concurrency = 1
    /\ Len(outcome) >= 2
    /\ outcome[1] = "failed"
    /\ \E i \in 2..Len(outcome) : outcome[i] = "installed"
    /\ ret = "errs"

\* The tools whose goroutine sent a tool, not an error, as its result.
Succeeded == {i \in 1..Len(outcome) : outcome[i] \in {"installed", "removed"}}

\* What holds of notifyCh at every moment: the tools sent on it are the
\* successful results Apply took from resultCh, in the order it took them,
\* each once (the last one may still be waiting for its receiver); nothing is
\* sent when no channel is registered, and the channel is never closed.
NotifiedInOrder ==
    /\ is.notifyCh \in {"nil", "chan"}
    /\ is.notifyCh = "nil" => notified = <<>>
    /\ Len(notified) <= Len(completedTools)
    /\ notified = SubSeq(completedTools, 1, Len(notified))
    /\ is.notifyCh # "nil" =>
          Len(notified) = Len(completedTools) - (IF pc = "notify" THEN 1 ELSE 0)

\* C12 as stated: with a channel registered, when Apply has returned every
\* successful per-tool result was sent on the channel exactly once, in the
\* order of completion, nothing was sent for a failed tool and the channel
\* is not closed.
NotifiesEverySuccess ==
    /\ NotifiedInOrder
    /\ (ApplyReturned /\ is.notifyCh # "nil") => Len(notified) = Cardinality(Succeeded)

\* C12, amended: the same for an Apply whose context is not cancelled; an
\* Apply that returns on a cancelled context has sent the successful results
\* it took before, each once and in order, and not the others.
NotifiesEveryCollectedSuccess ==
    /\ NotifiedInOrder
    /\ (ApplyReturned /\ ~ctxDone /\ is.notifyCh # "nil")
          => Len(notified) = Cardinality(Succeeded)

\* Apply returned after sending two tools in another order than that of the
\* InstallSet, while a third tool failed.
NotifiesEveryCollectedSuccessWitness ==
    /\ ApplyReturned /\ ~ctxDone
    /\ is.notifyCh = "chan"
    /\ Len(notified) = 2
    /\ Len(errs) = 1
    /\ \E i, j \in Succeeded :
          /\ i < j
          /\ is.tools[i].ImportPath # is.tools[j].ImportPath
          /\ notified[1].ImportPath = is.tools[j].ImportPath
          /\ notified[2].ImportPath = is.tools[i].ImportPath

\* C13: the lockfile file is persisted atomically: at every point of Apply
\* the file holds the complete content it had before or the complete
\* content of the lockfile in memory, never an empty or a partial document.
LockfileFileAtomic ==
    \/ file = file0
    \/ file = FullFile(WriteTo(lf))

\* ------------------------------------------------------------------------
\* Shed.Get
\* ------------------------------------------------------------------------

\* The largest number of names given to Get.
MaxNames == 3

\* The names given to Get: import paths without a version, with a semantic
\* version, with the queries latest and none, a binary name, which is no
\* import path, and a name that ends with '@'.
OptionNames ==
    { ToolName(<<"a.io", "x">>, FALSE, ""),
      ToolName(<<"a.io", "x">>, TRUE, "v2.0.0"),
      ToolName(<<"b.io", "x">>, TRUE, latestVersion),
      ToolName(<<"c.io", "y">>, TRUE, noneVersion),
      ToolName(<<"x">>, FALSE, ""),
      ToolName(<<"c.io", "y">>, TRUE, "") }

\* NewShed on a lockfile file whose tools are stored at a release or at a
\* prerelease, and the options the caller is going to give to Get.
InitGet ==
    /\ file \in {AbsentFile} \cup
                 {FullFile(d) : d \in UNION {[S -> {"v1.0.0", "v1.0.0-rc"}] :
                                                S \in SUBSET ImportPaths}}
    /\ lf \in (IF file.state = "absent" THEN {EmptyLockfile} ELSE ParseLockfile(file.doc))
    /\ lf0 = lf
    /\ file0 = file
    /\ NoHistory
    /\ is = [tools |-> <<>>, Concurrency |-> 0, notifyCh |-> "nil"]
    /\ numCPU = NotRead
    /\ ctxDone = FALSE
    /\ pc = "idle"
    /\ NoApply
    /\ parsed = NoParse
    /\ NoResolve
    /\ NoInstall
    /\ getOpts \in {[ToolNames |-> names, Update |-> update] :
                       names \in UNION {[1..n -> OptionNames] : n \in 0..MaxNames},
                       update \in BOOLEAN}

\* The caller drops the InstallSet that Get returned without applying it.
DiscardInstallSet ==
    /\ pc = "ready"
    /\ pc' = "discarded"
    /\ is' = [tools |-> <<>>, Concurrency |-> 0, notifyCh |-> "nil"]
    /\ UNCHANGED <<lfVars, file, lf0, file0, restVars, listVars, numCPU, ctxDone, applyVars>>

NextGet == CallGet \/ DiscardInstallSet

SpecGet == InitGet /\ [][NextGet]_vars

\* A name that tool.ParseLax accepts: its import path is a module path and
\* no '@' ends it.
ValidName(name) == CheckPath(name.path) /\ ~(name.at /\ name.version = "")

\* The import paths of the names given to Get.
RequestedPaths == {getOpts.ToolNames[i].path : i \in 1..Len(getOpts.ToolNames)}

\* C21: with update unset and all names valid, Get returns an InstallSet
\* that holds the requested tools in the order of the request, followed by
\* every lockfile tool whose import path was not requested, at its stored
\* version; its length is the number of names plus the number of such
\* lockfile tools, and a requested import path appears only among the
\* requested tools, with the version of the request.
GetUnionsLockfile ==
    LET names == getOpts.ToolNames
        notRequested == {t \in ToolSet(lf) : t.ImportPath \notin RequestedPaths}
    IN  (/\ pc \in {"ready", "getFailed"}
         /\ ~getOpts.Update
         /\ \A i \in 1..Len(names) : ValidName(names[i])) =>
            /\ pc = "ready"
            /\ Len(is.tools) = Len(names) + Cardinality(notRequested)
            /\ \A i \in 1..Len(names) :
                   is.tools[i] = Tool(names[i].path, names[i].version)
            /\ {is.tools[i] : i \in (Len(names) + 1)..Len(is.tools)} = notRequested
            /\ \A i \in 1..Len(is.tools) :
                   is.tools[i].ImportPath \in RequestedPaths => i <= Len(names)

\* Get returned two requested tools, one of them stored in the lockfile at
\* another version, followed by a lockfile tool that was not requested.
GetUnionsLockfileWitness ==
    /\ pc = "ready"
    /\ ~getOpts.Update
    /\ Len(getOpts.ToolNames) = 2
    /\ getOpts.ToolNames[1] = ToolName(<<"a.io", "x">>, TRUE, "v2.0.0")
    /\ Tool(<<"a.io", "x">>, "v1.0.0") \in ToolSet(lf)
    /\ Len(is.tools) = 3
    /\ is.tools[3] \in ToolSet(lf)

UpdateKeepsPrereleases ==
    LET names == getOpts.ToolNames IN
    (pc = "ready" /\ getOpts.Update) =>
        /\ Len(is.tools) =
               Len(names) + Cardinality({t \in ToolSet(lf) : t.ImportPath \notin RequestedPaths})
        /\ {is.tools[i] : i \in (Len(names) + 1)..Len(is.tools)} =
               IF Len(names) = 0
               THEN {IF HasPrerelease(t.Version) THEN t ELSE Tool(t.ImportPath, latestVersion) :
                        t \in ToolSet(lf)}
               ELSE {t \in ToolSet(lf) : t.ImportPath \notin RequestedPaths}

\* Get with update set and no names returned one lockfile tool at latest
\* and another at its stored prerelease version.
UpdateKeepsPrereleasesWitness ==
    /\ pc = "ready"
    /\ getOpts.Update
    /\ getOpts.ToolNames = <<>>
    /\ \E i, j \in 1..Len(is.tools) :
           /\ is.tools[i] = Tool(<<"a.io", "x">>, "v1.0.0-rc")
           /\ is.tools[j].Version = latestVersion
           /\ Tool(is.tools[j].ImportPath, "v1.0.0") \in ToolSet(lf)

\* C25: Get examines every name, also after one failed: when k names do
\* not parse or are rejected, it returns a list of exactly k errors and no
\* InstallSet, however many names were valid; it returns an InstallSet
\* when k is 0.
GetCollectsEveryError ==
    LET names == getOpts.ToolNames
        bad == {i \in 1..Len(names) :
                   \/ ~ValidName(names[i])
                   \/ /\ getOpts.Update
                      /\ names[i].version \notin {"", noneVersion, latestVersion}}
    IN  (pc \in {"ready", "getFailed"}) =>
            /\ Len(errs) = Cardinality(bad)
            /\ pc = "getFailed" <=> bad # {}
            /\ pc = "getFailed" => is.tools = <<>>

\* Get was given a valid name between a name that does not parse and a name
\* it rejects, and returned two errors.
GetCollectsEveryErrorWitness ==
    /\ pc = "getFailed"
    /\ getOpts.Update
    /\ getOpts.ToolNames = <<ToolName(<<"x">>, FALSE, ""),
                             ToolName(<<"b.io", "x">>, TRUE, latestVersion),
                             ToolName(<<"a.io", "x">>, TRUE, "v2.0.0")>>
    /\ errs = <<"InvalidToolName", "Invalid">>

\* C24: Get, and dropping the InstallSet it returned, change nothing: the
\* lockfile in memory, the lockfile file and the cache are after the step
\* what they were before it, whether Get returns an InstallSet, with
\* versions rewritten to latest or not, or errors.
GetChangesNothing ==
    [][(CallGet \/ DiscardInstallSet) => UNCHANGED <<lf, file, cache>>]_vars

\* Get with update set rewrote the versions of three lockfile tools in the
\* InstallSet, which the caller dropped; lockfile and file are as NewShed
\* left them.
GetChangesNothingWitness ==
    /\ pc = "discarded"
    /\ getOpts.Update
    /\ getOpts.ToolNames = <<>>
    /\ LenTools(lf) = 3
    /\ \E i \in 1..3 : lf.tools[i].Version = "v1.0.0"
    /\ lf = lf0
    /\ file = file0

\* ------------------------------------------------------------------------
\* ResolveLockfilePath
\* ------------------------------------------------------------------------

LockfileName == "shed.lock"

\* The deepest working directory and the most elements of a path given.
MaxDepth == 2

DirNames == {"a", "b"}

\* The directories of depth n at most.
Dirs(n) == UNION {[1..k -> DirNames] : k \in 0..n}

\* A path string that is not empty.
Path(abs, elems) == [abs |-> abs, elems |-> elems, empty |-> FALSE]

\* "."
Dot == Path(FALSE, <<>>)

\* filepath.Dir of a clean path: the path without its last element, "."
\* for a relative path of one element, and the path itself for "/" and ".".
\* The last element is dropped as text, ".." as any other.
Dir(p) ==
    IF Len(p.elems) = 0 THEN p
    ELSE Path(p.abs, SubSeq(p.elems, 1, Len(p.elems) - 1))

\* filepath.Join(p, name) of a clean path and a file name.
Join(p, name) == Path(p.abs, Append(p.elems, name))

\* The directory the operating system finds at the elements elems from the
\* directory d: ".." leads to the parent, and to the root from the root.
RECURSIVE Walk(_, _, _)
Walk(d, elems, n) ==
    IF n = 0 THEN d
    ELSE LET w == Walk(d, elems, n - 1) IN
         IF elems[n] = ".."
         THEN (IF Len(w) = 0 THEN w ELSE SubSeq(w, 1, Len(w) - 1))
         ELSE Append(w, elems[n])

\* The directory a path names for a process whose working directory is wd;
\* the empty string names it as "." does.
Denote(p, wd) == Walk(IF p.abs THEN <<>> ELSE wd, p.elems, Len(p.elems))

\* The clean paths given as start directory: absolute ones, relative ones
\* with ".." elements in front, and the empty string.
StartDirs ==
    {Path(TRUE, d) : d \in Dirs(MaxDepth)}
        \cup {Path(FALSE, up \o d) : up \in {<<>>, <<"..">>}, d \in Dirs(MaxDepth - 1)}
        \cup {EmptyString}

\* A file system with shed.lock in two directories at most, a working
\* directory and a start directory.
InitResolve ==
    /\ cwd \in Dirs(MaxDepth)
    /\ locks \in {S \in SUBSET Dirs(MaxDepth) : Cardinality(S) <= 2}
    /\ startDir \in StartDirs
    /\ dir = EmptyString
    /\ prev = EmptyString
    /\ inspected = {}
    /\ lfp = EmptyString
    /\ lf = EmptyLockfile
    /\ file = AbsentFile
    /\ lf0 = EmptyLockfile
    /\ file0 = AbsentFile
    /\ NoHistory
    /\ is = [tools |-> <<>>, Concurrency |-> 0, notifyCh |-> "nil"]
    /\ numCPU = NotRead
    /\ ctxDone = FALSE
    /\ pc = "call"
    /\ NoApply
    /\ parsed = NoParse
    /\ getOpts = NoOptions
    /\ NoInstall

resolveFrame ==
    UNCHANGED <<lfVars, file, lf0, file0, getOpts, parsed, cacheVars, cwd, locks, startDir, is,
                numCPU, ctxDone, applyVars, listVars>>

\* The entry of ResolveLockfilePath: "" is synonymous with ".".
ResolveStart ==
    /\ pc = "call"
    /\ dir' = IF startDir = EmptyString THEN Dot ELSE startDir
    /\ prev' = EmptyString
    /\ pc' = "resolve"
    /\ UNCHANGED <<inspected, lfp>>
    /\ resolveFrame

\* One iteration of the loop: the lockfile is looked for in dir, and dir
\* becomes its parent when it is not there.
ResolveIterate ==
    /\ pc = "resolve"
    /\ dir # prev
    /\ inspected' = inspected \cup {Denote(dir, cwd)}
    /\ IF Denote(dir, cwd) \in locks
       THEN /\ lfp' = Join(dir, LockfileName)
            /\ pc' = "resolved"
            /\ UNCHANGED <<dir, prev>>
       ELSE /\ prev' = dir
            /\ dir' = Dir(dir)
            /\ UNCHANGED <<lfp, pc>>
    /\ resolveFrame

\* The loop ends when dir is its own parent: no lockfile was found.
ResolveNotFound ==
    /\ pc = "resolve"
    /\ dir = prev
    /\ lfp' = EmptyString
    /\ pc' = "resolved"
    /\ UNCHANGED <<dir, prev, inspected>>
    /\ resolveFrame

NextResolve == ResolveStart \/ ResolveIterate \/ ResolveNotFound

SpecResolve == InitResolve /\ [][NextResolve]_vars

\* The directory d and its ancestors up to the root.
Chain(d) == {SubSeq(d, 1, k) : k \in 0..Len(d)}

\* C26: ResolveLockfilePath(start_dir) returns the path of shed.lock in the
\* nearest directory of the chain start_dir, parent, grandparent, ... up
\* to the root of the file system, and the empty string when no directory
\* of the chain holds one, for an absolute, a relative and an empty
\* start_dir, the empty one standing for the working directory.
ResolveFindsNearest ==
    LET holders == Chain(Denote(startDir, cwd)) \cap locks IN
    pc = "resolved" =>
        IF holders = {} THEN lfp = EmptyString
        ELSE /\ lfp # EmptyString
             /\ lfp = Join(Dir(lfp), LockfileName)
             /\ Denote(Dir(lfp), cwd) \in holders
             /\ \A h \in holders : Len(h) <= Len(Denote(Dir(lfp), cwd))

\* C27: ResolveLockfilePath(d) looks into no directory that is not d or an
\* ancestor of d, and returns the empty string when shed.lock exists only
\* in other directories.
ResolveStaysOnChain ==
    /\ inspected \subseteq Chain(Denote(startDir, cwd))
    /\ (pc = "resolved" /\ Chain(Denote(startDir, cwd)) \cap locks = {}) => lfp = EmptyString

\* ------------------------------------------------------------------------
\* Cache.Install
\* ------------------------------------------------------------------------

\* The callers of Install on one cache root.
Procs == {1, 2}

\* The import path of the tool installed and the path of its module.
InstallPath == <<"a.io", "x">>

ModulePath == <<"a.io">>

\* The tools Install is asked for, with a semantic version, a query and no
\* version.  Tool.Filepath names one directory of the cache for each.
CacheTools == {Tool(InstallPath, v) : v \in {"v1.0.0", DriverVersion, latestVersion, ""}}

\* The content of a go.mod file: absent, no require ("empty"), or one
\* require of the module Path at Version.
NoMod == [state |-> "absent", Path |-> <<>>, Version |-> ""]

EmptyMod == [state |-> "empty", Path |-> <<>>, Version |-> ""]

Require(path, v) == [state |-> "require", Path |-> path, Version |-> v]

\* A directory that does not exist.
NoDir == [exists |-> FALSE, mod |-> NoMod, bin |-> FALSE]

\* strings.HasPrefix(importPath, modPath), element by element.
HasPrefix(importPath, modPath) ==
    /\ Len(modPath) <= Len(importPath)
    /\ SubSeq(importPath, 1, Len(modPath)) = modPath

\* readGoModFile(op, kind, modfilePath, t): "nil" when there is no file,
\* "err" when the file has no require whose path is a prefix of the import
\* path of t, and the require otherwise.
readGoModFile(d, t) ==
    IF ~d.exists \/ d.mod.state = "absent" THEN [modFile |-> "nil", mod |-> NoMod]
    ELSE IF d.mod.state = "require" /\ HasPrefix(t.ImportPath, d.mod.Path)
    THEN [modFile |-> "ok", mod |-> d.mod]
    ELSE [modFile |-> "err", mod |-> NoMod]

\* The version the driver resolves a version or query to.
Resolve(v) == IF IsValid(v) THEN v ELSE DriverVersion

\* A caller that is going to call Install(t) n times on the cache c: where
\* it is, the tool download resolved, whether GetD was called in this call,
\* whether download returned without error in this call, the calls of Build
\* made in this call, the cache before the call, and what the calls returned.
Caller(t, n, c) ==
    [pc |-> "idle", t |-> t, rt |-> NoTool, calls |-> n, getd |-> FALSE,
     downloaded |-> FALSE, built |-> <<>>, before |-> c, rets |-> <<>>]

\* The caller after its call returned the tool rt and the error err on the
\* cache c.
Returned(i, rt, err, c) ==
    [i EXCEPT !.pc = "idle", !.rets = Append(@, [t |-> rt, err |-> err, cache |-> c])]

\* The caches Install is called on: nothing, or one directory with a go.mod
\* file or none and the binary or none.
InitialCaches ==
    {[d \in CacheTools |-> NoDir]} \cup
    {[d \in CacheTools |-> IF d = e THEN [exists |-> TRUE, mod |-> m, bin |-> b] ELSE NoDir] :
        e \in CacheTools,
        m \in {NoMod, EmptyMod, Require(ModulePath, "v1.0.0"),
               Require(ModulePath, DriverVersion), Require(<<"b.io">>, "v1.0.0")},
        b \in BOOLEAN}

\* One caller that calls Install(t) twice, or two callers that call Install
\* once each, at the same time, for the same import path or for a tool
\* without an import path, with a context that is done or not.
InitCache ==
    /\ cache \in InitialCaches
    /\ inst \in {[p \in Procs |-> Caller(t, IF p = 1 THEN 2 ELSE 0, cache)] :
                    t \in CacheTools \cup {NoTool}}
                \cup {[p \in Procs |-> Caller(ts[p], 1, cache)] :
                          ts \in [Procs -> CacheTools \cup {NoTool}]}
    /\ NoResolve
    /\ lf = EmptyLockfile
    /\ file = AbsentFile
    /\ lf0 = EmptyLockfile
    /\ file0 = AbsentFile
    /\ NoHistory
    /\ is = [tools |-> <<>>, Concurrency |-> 0, notifyCh |-> "nil"]
    /\ numCPU = NotRead
    /\ ctxDone \in BOOLEAN
    /\ pc = "cache"
    /\ NoApply
    /\ parsed = NoParse
    /\ getOpts = NoOptions

cacheFrame ==
    UNCHANGED <<lfVars, file, lf0, file0, getOpts, parsed, resolveVars, is, numCPU, ctxDone, pc,
                applyVars, listVars>>

\* Install is called: it returns at once when the context is done and
\* when the import path is missing, and goes on to download otherwise.
InstallCall(p) ==
    LET called == [inst[p] EXCEPT !.calls = @ - 1, !.rt = NoTool, !.getd = FALSE,
                                  !.downloaded = FALSE, !.built = <<>>,
                                  !.before = cache]
    IN  /\ inst[p].pc = "idle"
        /\ inst[p].calls > 0
        /\ inst' = [inst EXCEPT ![p] =
                       IF ctxDone THEN Returned(called, called.t, "ctx.Err", cache)
                       ELSE IF called.t.ImportPath = <<>>
                       THEN Returned(called, called.t, "Internal", cache)
                       ELSE [called EXCEPT !.pc = "check"]]
        /\ UNCHANGED cache
        /\ cacheFrame

\* download without the comparison of the versions: it returns when the
\* go.mod file has a require for the tool, whatever its version.
DownloadCheckAnyVersion(p) ==
    LET t == inst[p].t
        r == readGoModFile(cache[t], t)
    IN  /\ inst[p].pc = "check"
        /\ IF HasSemver(t) /\ r.modFile = "ok"
           THEN inst' = [inst EXCEPT ![p] = [@ EXCEPT !.pc = "binstat", !.rt = t,
                                                      !.downloaded = TRUE]]
           ELSE inst' = [inst EXCEPT ![p].pc = "mkdir"]
        /\ UNCHANGED cache
        /\ cacheFrame

\* download, for a tool with a semantic version: the go.mod file of the
\* directory of the tool is read, and download returns when its require
\* has the version of the tool.
DownloadCheck(p) ==
    LET t == inst[p].t
        r == readGoModFile(cache[t], t)
    IN  /\ inst[p].pc = "check"
        /\ IF HasSemver(t) /\ r.modFile = "ok" /\ t.Version = r.mod.Version
           THEN inst' = [inst EXCEPT ![p] = [@ EXCEPT !.pc = "binstat", !.rt = t,
                                                      !.downloaded = TRUE]]
           ELSE inst' = [inst EXCEPT ![p].pc = "mkdir"]
        /\ UNCHANGED cache
        /\ cacheFrame

\* os.MkdirAll(modDir)
DownloadMkdirAll(p) ==
    LET t == inst[p].t IN
    /\ inst[p].pc = "mkdir"
    /\ cache' = IF cache[t].exists THEN cache
                ELSE [cache EXCEPT ![t] = [exists |-> TRUE, mod |-> NoMod, bin |-> FALSE]]
    /\ inst' = [inst EXCEPT ![p].pc = "remove"]
    /\ cacheFrame

\* os.RemoveAll(modfilePath)
DownloadRemoveAll(p) ==
    LET t == inst[p].t IN
    /\ inst[p].pc = "remove"
    /\ cache' = [cache EXCEPT ![t].mod = NoMod]
    /\ inst' = [inst EXCEPT ![p].pc = "create"]
    /\ cacheFrame

\* createGoModFile: a go.mod file without a require is written into the
\* directory, which must exist.
DownloadCreateGoMod(p) ==
    LET t == inst[p].t IN
    /\ inst[p].pc = "create"
    /\ IF cache[t].exists
       THEN /\ cache' = [cache EXCEPT ![t].mod = EmptyMod]
            /\ inst' = [inst EXCEPT ![p].pc = "getd"]
       ELSE /\ inst' = [inst EXCEPT ![p] = Returned(@, t, "Go", cache)]
            /\ UNCHANGED cache
    /\ cacheFrame

\* goClient.GetD: the driver writes the require of the module at the
\* version it resolved into the go.mod file of the directory, which must
\* be there.
DownloadGetD(p) ==
    LET t == inst[p].t IN
    /\ inst[p].pc = "getd"
    /\ IF cache[t].exists /\ cache[t].mod.state # "absent"
       THEN /\ cache' = [cache EXCEPT ![t].mod = Require(ModulePath, Resolve(t.Version))]
            /\ inst' = [inst EXCEPT ![p] = [@ EXCEPT !.pc = "read", !.getd = TRUE]]
       ELSE /\ inst' = [inst EXCEPT ![p] = Returned(@, t, "Go", cache)]
            /\ UNCHANGED cache
    /\ cacheFrame

\* download reads the go.mod file after GetD: it fails when the file is
\* missing or has no require for the tool, and when the require of a tool
\* with a semantic version has another version; the version of the require
\* becomes the version of a tool without one.
DownloadReadGoMod(p) ==
    LET t == inst[p].t
        r == readGoModFile(cache[t], t)
    IN  /\ inst[p].pc = "read"
        /\ IF r.modFile # "ok"
           THEN inst' = [inst EXCEPT ![p] = Returned(@, t, "Internal", cache)]
           ELSE IF HasSemver(t)
           THEN IF r.mod.Version # t.Version
                THEN inst' = [inst EXCEPT ![p] = Returned(@, t, "Internal", cache)]
                ELSE inst' = [inst EXCEPT ![p] = [@ EXCEPT !.pc = "binstat", !.rt = t,
                                                           !.downloaded = TRUE]]
           ELSE inst' = [inst EXCEPT ![p] =
                            [@ EXCEPT !.pc = "stat",
                                      !.rt = Tool(t.ImportPath, r.mod.Version)]]
        /\ UNCHANGED cache
        /\ cacheFrame

\* download without the test of modVersionDir: the directory is renamed
\* whether the directory of the version exists or not.
DownloadStatNoCheck(p) ==
    /\ inst[p].pc = "stat"
    /\ inst' = [inst EXCEPT ![p].pc = "rename"]
    /\ UNCHANGED cache
    /\ cacheFrame

\* util.FileOrDirExists(modVersionDir)
DownloadStat(p) ==
    /\ inst[p].pc = "stat"
    /\ inst' = [inst EXCEPT ![p] =
                   IF cache[inst[p].rt].exists
                   THEN [@ EXCEPT !.pc = "binstat", !.downloaded = TRUE]
                   ELSE [@ EXCEPT !.pc = "rename"]]
    /\ UNCHANGED cache
    /\ cacheFrame

\* os.Rename(modDir, modVersionDir) fails when modDir is gone and when
\* modVersionDir is a directory that is not empty.
DownloadRename(p) ==
    LET t == inst[p].t
        rt == inst[p].rt
    IN  /\ inst[p].pc = "rename"
        /\ IF cache[t].exists /\ ~cache[rt].exists
           THEN /\ cache' = [cache EXCEPT ![rt] = cache[t], ![t] = NoDir]
                /\ inst' = [inst EXCEPT ![p] = [@ EXCEPT !.pc = "binstat",
                                                          !.downloaded = TRUE]]
           ELSE /\ inst' = [inst EXCEPT ![p] = Returned(@, rt, "IO", cache)]
                /\ UNCHANGED cache
        /\ cacheFrame

\* Install without the test of binPath: Build is called whether the binary
\* is there or not.
InstallStatAlwaysBuilds(p) ==
    /\ inst[p].pc = "binstat"
    /\ inst' = [inst EXCEPT ![p].pc = "build"]
    /\ UNCHANGED cache
    /\ cacheFrame

\* Install: util.FileOrDirExists(binPath); the build is skipped when the
\* binary is there.
InstallStat(p) ==
    LET rt == inst[p].rt IN
    /\ inst[p].pc = "binstat"
    /\ IF cache[rt].exists /\ cache[rt].bin
       THEN inst' = [inst EXCEPT ![p] = Returned(@, rt, "nil", cache)]
       ELSE inst' = [inst EXCEPT ![p].pc = "build"]
    /\ UNCHANGED cache
    /\ cacheFrame

\* goClient.Build(ctx, importPath, binPath, binDir): the driver writes the
\* binary into the directory of the tool, which must exist.  The call is
\* recorded with its working directory (the tool whose directory binDir is),
\* with whether download had returned without error and with whether the
\* binary was there.
InstallBuild(p) ==
    LET rt == inst[p].rt
        call == [binDir |-> rt, downloaded |-> inst[p].downloaded,
                 bin |-> cache[rt].exists /\ cache[rt].bin]
        building == [inst[p] EXCEPT !.built = Append(@, call)]
    IN  /\ inst[p].pc = "build"
        /\ IF cache[rt].exists
           THEN /\ cache' = [cache EXCEPT ![rt].bin = TRUE]
                /\ inst' = [inst EXCEPT ![p] = Returned(building, rt, "nil", cache')]
           ELSE /\ inst' = [inst EXCEPT ![p] = Returned(building, rt, "Go", cache)]
                /\ UNCHANGED cache
        /\ cacheFrame

NextCache ==
    \E p \in Procs :
        \/ InstallCall(p)
        \/ DownloadCheck(p)
        \/ DownloadMkdirAll(p)
        \/ DownloadRemoveAll(p)
        \/ DownloadCreateGoMod(p)
        \/ DownloadGetD(p)
        \/ DownloadReadGoMod(p)
        \/ DownloadStat(p)
        \/ DownloadRename(p)
        \/ InstallStat(p)
        \/ InstallBuild(p)

SpecCache == InitCache /\ [][NextCache]_vars

\* C28 as stated: a second Install(t) after a successful first one returns
\* the same resolved tool and leaves every directory, go.mod file and
\* binary of the cache as the first call left it, for a tool with a
\* semantic version, with a query and without a version.
InstallIdempotent ==
    LET r == inst[1].rets IN
    (Len(r) = 2 /\ r[1].err = "nil") =>
        /\ r[2].err = "nil"
        /\ r[2].t = r[1].t
        /\ r[2].cache = r[1].cache

\* C28, amended: the second Install(t) returns the same resolved tool and
\* leaves every directory but the one named by t as the first call left
\* it, the directory of the resolved version among them.  For a tool with
\* a semantic version nothing at all changes; for a query or no version
\* the directory named by t exists after the second call, with a go.mod
\* file that requires the resolved version, also when the first call had
\* renamed it away.
InstallIdempotentVersioned ==
    LET r == inst[1].rets
        t == inst[1].t
    IN  (Len(r) = 2 /\ r[1].err = "nil") =>
            /\ r[2].err = "nil"
            /\ r[2].t = r[1].t
            /\ \A d \in CacheTools \ {t} : r[2].cache[d] = r[1].cache[d]
            /\ HasSemver(t) => r[2].cache = r[1].cache
            /\ ~HasSemver(t) =>
                   /\ r[2].cache[t].exists
                   /\ r[2].cache[t].mod = Require(ModulePath, r[1].t.Version)
                   /\ r[2].cache[t].bin = r[1].cache[t].bin

\* Install(a.io/x@latest) was called twice on an empty cache: the first
\* call renamed the directory a.io/x@latest, and the second call left a new
\* one behind.
InstallIdempotentVersionedWitness ==
    LET r == inst[1].rets IN
    /\ inst[1].t = Tool(InstallPath, latestVersion)
    /\ Len(r) = 2
    /\ r[1].err = "nil"
    /\ r[2].err = "nil"
    /\ ~r[1].cache[inst[1].t].exists
    /\ r[2].cache[inst[1].t].exists
    /\ r[2].cache[r[2].t].bin

\* The go.mod file content mod is valid for the tool t: its require has a
\* path that is a prefix of the import path, and the version of t.
ValidFor(mod, t) ==
    /\ mod.state = "require"
    /\ HasPrefix(t.ImportPath, mod.Path)
    /\ mod.Version = t.Version

ConcurrentInstallsSucceed ==
    LET v == Resolve(inst[1].t.Version)
        d == Tool(InstallPath, v)
    IN  (/\ \A p \in Procs : inst[p].pc = "idle" /\ inst[p].calls = 0 /\ Len(inst[p].rets) = 1
         /\ \A p \in Procs : inst[p].t \in CacheTools
         /\ ~ctxDone
         /\ Resolve(inst[2].t.Version) = v) =>
            /\ \A p \in Procs : inst[p].rets[1].err = "nil"
            /\ cache[d].exists
            /\ ValidFor(cache[d].mod, d)
            /\ cache[d].bin

\* ------------------------------------------------------------------------
\* tool.Parse and tool.ParseLax on a tool name
\* ------------------------------------------------------------------------
\* The names given to the parsers: an import path of the model or one that
\* module.CheckPath rejects, alone, or followed by "@" and a version, a
\* query or nothing.
ParseNames ==
    {PathName(p) : p \in DocPaths}
        \cup {ToolName(p, TRUE, v) : p \in DocPaths, v \in Versions}

InitTool ==
    /\ file = AbsentFile
    /\ lf = EmptyLockfile
    /\ lf0 = EmptyLockfile
    /\ file0 = file
    /\ NoHistory
    /\ is = [tools |-> <<>>, Concurrency |-> 0, notifyCh |-> "nil"]
    /\ numCPU = NotRead
    /\ ctxDone = FALSE
    /\ pc = "tool"
    /\ NoApply
    /\ NoResolve
    /\ NoInstall
    /\ getOpts = NoOptions
    /\ parsed \in {[NoParse EXCEPT !.name = n] : n \in ParseNames}

\* tool.Parse(name)
CallToolParse ==
    LET r == Parse(parsed.name) IN
    /\ pc = "tool"
    /\ parsed' = [name |-> parsed.name, strict |-> TRUE, t |-> r.t, err |-> r.err]
    /\ pc' = "toolParsed"
    /\ UNCHANGED <<lfVars, file, lf0, file0, getOpts, resolveVars, cacheVars, is, numCPU,
                   ctxDone, applyVars, listVars>>

\* tool.ParseLax(name)
CallToolParseLax ==
    LET r == ParseLax(parsed.name) IN
    /\ pc = "tool"
    /\ parsed' = [name |-> parsed.name, strict |-> FALSE, t |-> r.t, err |-> r.err]
    /\ pc' = "toolParsed"
    /\ UNCHANGED <<lfVars, file, lf0, file0, getOpts, resolveVars, cacheVars, is, numCPU,
                   ctxDone, applyVars, listVars>>

NextTool == CallToolParse \/ CallToolParseLax

SpecTool == InitTool /\ [][NextTool]_vars

\* ------------------------------------------------------------------------
\* Properties of the cache after Apply, of List and of the parsers
\* ------------------------------------------------------------------------

\* C31: after a successful Apply, ToolPath of the import path of every tool
\* in the lockfile returns the path of that tool's binary, which exists in
\* the cache; and, in every state, Cache.ToolPath of a tool with a valid
\* import path fails with NotInstalled exactly when its binary is missing.
LockfileToolsAreBuilt ==
    /\ (pc = "done" /\ ret = "nil") =>
           \A i \in 1..Len(lf.tools) :
               LET t == lf.tools[i]
                   r == ShedToolPath(lf, cache, PathName(t.ImportPath))
               IN  r.err = "nil" /\ r.binPath = t /\ BinaryExists(cache, t)
    /\ \A p \in ImportPaths, v \in Versions :
           CheckPath(p) =>
               ((CacheToolPath(cache, Tool(p, v)).err = "NotInstalled")
                    <=> ~BinaryExists(cache, Tool(p, v)))

\* C32: List with ShowUpdates that received a FindUpdate failure returns
\* that failure (the first it received, no result is taken after it) with
\* no tool list and with the context of the update checks cancelled, and
\* no goroutine calls FindUpdate for another tool after that.
ListStopsAtFirstFailure ==
    /\ []((pc = "listDone" /\ ret = "FindUpdateFailed") =>
              /\ infos = <<>>
              /\ listCancel
              /\ ci < Len(lf.tools))
    /\ [][(pc = "listDone" /\ ret = "FindUpdateFailed") =>
              \A i \in 1..Len(worker) :
                  worker'[i] = "finding" => worker[i] = "finding"]_vars

\* C33: a List that returns without error returns one entry for every tool
\* of the lockfile and no other, in ascending order of the import paths,
\* with and without ShowUpdates and in whatever order the update checks
\* completed; with ShowUpdates the entry of a tool carries the version
\* ListU reported for that tool ("" when it reported none), and without it
\* the empty string.
ListReturnsEveryToolSorted ==
    (pc = "listDone" /\ ret = "nil") =>
        /\ Len(infos) = Len(lf.tools)
        /\ \A i \in 1..Len(lf.tools) :
               \E k \in 1..Len(infos) :
                   /\ infos[k].Tool = lf.tools[i]
                   /\ infos[k].LatestVersion =
                          (IF listOpts.ShowUpdates THEN gm[i] ELSE "")
        /\ \A k \in 1..Len(infos), m \in 1..Len(infos) :
               k < m => PathLess(infos[k].Tool.ImportPath, infos[m].Tool.ImportPath)

\* List with ShowUpdates returned two tools, the first with the update
\* v2.0.0 and the second without one.
ListReturnsEveryToolSortedWitness ==
    /\ pc = "listDone"
    /\ ret = "nil"
    /\ listOpts.ShowUpdates
    /\ Len(infos) = 2
    /\ infos[1].LatestVersion = "v2.0.0"
    /\ infos[2].LatestVersion = ""
    /\ gm = <<"v2.0.0", "">>

\* C34: Parse returns a shorthand semantic version in its canonical form
\* (v1 as v1.0.0, v1.2 as v1.2.0) and rejects a version suffix that is not
\* a semantic version; ParseLax returns every version suffix that is not
\* empty as it stands; and both reject a name that ends in "@".
ParseCanonicalisesLaxDoesNot ==
    LET n == parsed.name IN
    (pc = "toolParsed" /\ n.at) =>
        /\ n.version = "" => parsed.err # "nil"
        /\ (n.version # "" /\ CheckPath(n.path)) =>
               IF parsed.strict
               THEN IF IsValid(n.version)
                    THEN /\ parsed.err = "nil"
                         /\ parsed.t = Tool(n.path, Canonical(n.version))
                    ELSE parsed.err # "nil"
               ELSE /\ parsed.err = "nil"
                    /\ parsed.t = Tool(n.path, n.version)

\* C35: in a lockfile reached by PutTool and DeleteTool calls, DeleteTool(t)
\* leaves the tools of the other import paths as they were: GetTool of the
\* import path of every other stored tool still returns that tool, with
\* its version; and LenTools is one less when a stored tool had t's import
\* path and matched t's version (or t had none), and the same otherwise.
DeleteToolKeepsOthers ==
    last.op = "DeleteTool" =>
        LET t == last.t
            matched == \E i \in 1..Len(lfPrev.tools) :
                           /\ lfPrev.tools[i].ImportPath = t.ImportPath
                           /\ t.Version \in {"", lfPrev.tools[i].Version}
            p == got.name.path
        IN  /\ LenTools(lf) = LenTools(lfPrev) - (IF matched THEN 1 ELSE 0)
            /\ (/\ got.err # "none"
                /\ ~got.name.at
                /\ p # t.ImportPath
                /\ \E i \in 1..Len(lfPrev.tools) : lfPrev.tools[i].ImportPath = p)
                   => /\ got.err = "nil"
                      /\ \E i \in 1..Len(lfPrev.tools) : lfPrev.tools[i] = got.t
                      /\ got.t.ImportPath = p

\* C36: every tool stored in a lockfile has a canonical semantic version:
\* its version is not empty, not a query such as none, latest or a branch,
\* and not a shorthand such as v1 or v1.2.
StoredVersionsCanonical ==
    \A i \in 1..Len(lf.tools) : IsCanonical(lf.tools[i].Version)

\* C37: when every driver call returns and notifyCh is drained, an Apply
\* that was called returns, and every goroutine it started sends its result,
\* gives its slot of semCh back and ends, also when Apply returned on a
\* done context before it took their results.
ApplyTerminates ==
    (pc \in {"dispatch", "collect", "notify", "commit", "open", "write"})
        ~> (/\ pc = "done"
            /\ semCh = 0
            /\ \A i \in 1..Len(worker) : worker[i] = "exited")

RECURSIVE InOrderDoc(_, _)
InOrderDoc(doc, n) ==
    IF n = 0 THEN doc
    ELSE LET d == InOrderDoc(doc, n - 1)
             t == is.tools[n]
         IN  IF t.Version = noneVersion
             THEN [p \in (DOMAIN d) \ {t.ImportPath} |-> d[p]]
             ELSE [p \in (DOMAIN d) \cup {t.ImportPath} |->
                      IF p = t.ImportPath THEN Installed(t).Version ELSE d[p]]

\* C39: the lockfile a successful Apply committed, as the import paths and
\* versions it stores and writes to the file, is the same in whatever order
\* the installs completed: it is the lockfile that results when they
\* complete in the order of the InstallSet, also when the InstallSet holds
\* an import path twice with two versions.
CommitIgnoresCompletionOrder ==
    (pc = "done" /\ ret = "nil") =>
        /\ WriteTo(lf) = InOrderDoc(WriteTo(lf0), Len(is.tools))
        /\ file = FullFile(WriteTo(lf))

\* C40: whenever Apply has returned an error, the lockfile in memory is the
\* lockfile from before Apply: the commit of Apply stores all of its changes
\* or none.
CommitAllOrNothing ==
    (pc = "done" /\ ret # "nil") => lf = lf0

====
